---- MODULE Spec2Model ----
(***************************************************************************)
(* Cluster deletion in the Kubermatic Kubernetes Platform.                 *)
(*                                                                         *)
(* Two controllers work on the finalizer list of one Cluster object that   *)
(* carries a deletion timestamp:                                           *)
(*   - the cluster controller, whose every reconcile runs one pass of      *)
(*     Deletion.CleanupCluster (pkg/clusterdeletion/deletion.go);          *)
(*   - the cloud controller, which calls the provider's                    *)
(*     CleanUpCloudProvider (pkg/provider/cloud/azure/provider.go).        *)
(* The finalizer list on the seed API server is `finalizers`; each         *)
(* controller works on its own copy of the object (`cluster`, `ccluster`). *)
(***************************************************************************)
EXTENDS Integers, FiniteSets, Sequences, TLC

\* ------------------------------------------------------------------ bounds
\* Load balancer services, volumes and machines the user cluster starts with (each).
MaxResources == 1

\* ------------------------------------------------------- finalizer strings
KubermaticConstraintCleanupFinalizer == "kubermatic.k8c.io/cleanup-kubermatic-constraints"
InClusterLBCleanupFinalizer == "kubermatic.k8c.io/cleanup-in-cluster-lb"
InClusterPVCleanupFinalizer == "kubermatic.k8c.io/cleanup-in-cluster-pv"
EtcdBackupConfigCleanupFinalizer == "kubermatic.k8c.io/cleanup-etcd-backup-configs"
NodeDeletionFinalizer == "kubermatic.k8c.io/delete-nodes"
ClusterRoleBindingsCleanupFinalizer == "kubermatic.k8c.io/cleanup-cluster-role-bindings"
CredentialsSecretsCleanupFinalizer == "kubermatic.k8c.io/cleanup-credentials-secrets"

FinalizerSecurityGroup == "kubermatic.k8c.io/cleanup-azure-security-group"
FinalizerRouteTable == "kubermatic.k8c.io/cleanup-azure-route-table"
FinalizerSubnet == "kubermatic.k8c.io/cleanup-azure-subnet"
FinalizerVNet == "kubermatic.k8c.io/cleanup-azure-vnet"
FinalizerResourceGroup == "kubermatic.k8c.io/cleanup-azure-resource-group"
FinalizerAvailabilitySet == "kubermatic.k8c.io/cleanup-azure-availability-set"

\* Faulty variant: the route table block stands before the security group block.
AzureCleanupOrder_Swapped ==
    << FinalizerRouteTable, FinalizerSecurityGroup, FinalizerSubnet,
       FinalizerVNet, FinalizerAvailabilitySet, FinalizerResourceGroup >>

\* The order in which Azure.CleanUpCloudProvider walks its finalizers.
AzureCleanupOrder ==
    << FinalizerSecurityGroup, FinalizerRouteTable, FinalizerSubnet,
       FinalizerVNet, FinalizerAvailabilitySet, FinalizerResourceGroup >>

AzureFinalizers == { AzureCleanupOrder[i] : i \in 1..Len(AzureCleanupOrder) }

\* Finalizers that stand for resources inside the user cluster.
InClusterFinalizers ==
    { InClusterLBCleanupFinalizer, InClusterPVCleanupFinalizer, NodeDeletionFinalizer }

\* ------------------------------------------------- kuberneteshelper package
HasFinalizer(c, name) == name \in c

HasAnyFinalizer(c, names) == (c \cap names) # {}

HasOnlyFinalizer(c, name) == c = {name}

RemoveFinalizer(c, names) == c \ names

VARIABLES
    finalizers,          \* metadata.finalizers of the Cluster on the seed API
    lbServices,          \* LoadBalancer services still listed in the user cluster
    lbDeleting,          \* a DELETE was issued for the listed services
    lbsPending,          \* load balancers whose deletion was requested and is not yet confirmed
    pvs,                 \* PVs/PVCs still listed in the user cluster
    pvDeleting,
    nodes,               \* machines still listed in the user cluster
    nodeDeleting,
    crbs,                \* the cluster's ClusterRoleBindings still on the seed
    azure,               \* Azure resources (named by their finalizer) that exist
    \* one CleanupCluster pass of the cluster controller
    pc,                  \* "idle" or the stage the pass runs next
    cluster,             \* the pass's copy of the finalizer list
    attempted,           \* stages this pass has run (pass-local history)
    deletedSomeResource, \* local of cleanupInClusterResources
    lbsAreGone,          \* local of cleanupInClusterResources: "unchecked", "gone", "remaining"
    result,              \* how the last pass ended: "err", or the nil return it took
    \* one CleanUpCloudProvider call of the cloud controller
    cidx,                \* 0: not running, else position in AzureCleanupOrder
    cphase,              \* "check" or "update"
    ccluster,            \* the call's copy of the finalizer list
    deleteResult,        \* answer of the last provider delete call
    cresult,             \* what the last finished call returned
    \* the cluster controller's workers and the clusters of the seed
    updating,            \* per cluster: an update of it is in progress
    wpc,                 \* per worker: "idle", "check", "admitted" or "reconciling"
    wcluster,            \* per worker: the cluster of its request, or "none"
    wresult,             \* per worker: what its last Reconcile returned and did
    \* Azure.reconcileCluster on one cluster
    seedSpec,            \* cluster.Spec.Cloud.Azure as stored on the seed API
    acluster,            \* the call's object (what the updater last returned)
    astart,              \* the spec the call was given
    assign,              \* Spec.Cloud.Azure.AssignAvailabilitySet: "nil", "true", "false"
    aop,                 \* "none", "InitializeCloudProvider" or "ReconcileCluster"
    apc,                 \* 0: no call running, else position in ReconcileOrder
    areconciled,         \* the pieces the call has reconciled, in order
    aresult,             \* "none", "running", "ok", "err"
    \* reconcileVApp / reconcileNetwork (VMware Cloud Director) on one cluster
    vseed,               \* the cluster on the seed API: [VApp, finalizer]
    vcluster,            \* the call's object
    vapps,               \* names of the vApps that exist in the VDC
    vpc,                 \* "idle", "get", "create", "update", "network"
    vresult,             \* what reconcileVApp returned: "none", "running", "ok", "err"
    netLookup,           \* the vApp name reconcileNetwork looked up: <<name>>, or << >>
    \* Azure.ValidateCloudSpecUpdate
    oldSpec, newSpec,    \* the two cloud specs
    validateErr,         \* "unset", "nil", or what the returned error is about
    \* Azure.AddICMPRulesIfRequired on one security group
    sgName,              \* cluster.Spec.Cloud.Azure.SecurityGroup
    sgOwned,             \* the group carries the cluster's ownership tag
    sgRulesNil,          \* the group's SecurityRules pointer is nil
    sgRules,             \* names of the group's rules
    sgTouched,           \* someone else changed the rules since the last invocation
    icmpResult,          \* "none", "nil", "err", "panic"
    icmpCalls,           \* CreateOrUpdate calls issued, one entry per invocation
    \* one Reconcile invocation of the cluster controller on one cluster
    pstored,             \* the Cluster on the seed API: name, status fields, deletion mark
    pobj,                \* the invocation's object
    ppc,                 \* "idle" or the step the invocation takes next
    psteps,              \* the steps the invocation has taken, in order
    pfailed,             \* those of them that returned an error
    pres,                \* RequeueAfter of the result reconcileCluster returned
    presult,             \* what the last invocation returned
    \* one mutation of the shared Cluster object: updateCluster, or the updater
    ustored,             \* the Cluster on the seed API
    uold,                \* the object the mutation starts from (the original)
    ukind,               \* "updateCluster" or "updater"
    umodify,             \* the modify function handed in
    ulock,               \* the optimistic-lock option is among opts
    ustale,              \* resourceVersion on the seed differs from the original's
    uforeign,            \* fields another controller changed since the read
    upc,                 \* "idle" or "read"
    upatches,            \* the patches the last mutation sent: the fields of each
    uerr,                \* what the last mutation returned: "none", "nil", "err"
    \* Reconcile<Kind>s with one named creator on one object
    hobj,                \* the object on the API, or NoObject
    hcreator,            \* the creator: the value it gives the field it owns
    hrecreate,           \* the kind is generated with RequiresRecreate
    hmodifier,           \* an owner-reference object modifier is passed
    hruns,               \* invocations so far
    hwrites,             \* per invocation, the write calls it issued
    htouched,            \* someone else changed the object since the last invocation
    herr,                \* what the last invocation returned: "none", "nil", "err"
    \* the addon reconciler on one addon
    adaddon,             \* the addon on the API
    adcluster,           \* its cluster: "gone", "noversion", "apidown", "up"
    addir,               \* the addon's manifest directory exists
    adenforce,           \* addonEnforceInterval is not zero
    adsteps,             \* what the last invocation did, in order
    adfailed,            \* the steps of the last invocation that failed
    adresult,            \* what the last invocation returned
    adtemplate,          \* the names of the objects the addon's template renders
    adobjects,           \* the objects in the tenant cluster, with their addon label
    adpruned,            \* the names the last invocation's apply pruned
    \* ValidateClusterUpdate on the feature flags and the encryption settings
    fold,                \* the stored cluster
    fnew,                \* the cluster of the last update request
    ferrs,               \* the errors ValidateClusterUpdate gave for it
    fever,               \* the one-way flags enabled at some time since the start
    \* validateCNIUpdate on one update
    noldCni,             \* the CNI plugin settings of the old cluster, or NoCNI
    nnewCni,             \* those of the new cluster, or NoCNI
    nlabels,             \* the labels of the new cluster
    nerr,                \* what validateCNIUpdate returned, "unset" before the call
    \* the RBAC project controller on one project
    jproject,            \* the project on the API
    jbindings,           \* per binding of the project's resources, its subjects or NoBinding
    jlast,               \* what the last invocation of sync did: "none", "ensure", "cleanup"
    jwrites,             \* per binding, the write calls the last invocation issued
    jfailed,             \* the calls of the last invocation that failed
    jnotfound,           \* the bindings the last invocation found absent
    jquiet,              \* nothing was changed from outside since the last invocation
    jerr                 \* what the last invocation returned: "none", "nil", "err"

pipelineVars == << pc, cluster, attempted, deletedSomeResource, lbsAreGone, result >>
cloudVars == << cidx, cphase, ccluster, deleteResult, cresult >>
userClusterVars == << lbServices, lbDeleting, lbsPending, pvs, pvDeleting, nodes, nodeDeleting >>
deletionVars == << finalizers, userClusterVars, crbs, azure, pipelineVars, cloudVars >>
reconcileVars == << updating, wpc, wcluster, wresult >>
infraVars == << seedSpec, acluster, astart, assign, aop, apc, areconciled, aresult >>
vappVars == << vseed, vcluster, vapps, vpc, vresult, netLookup >>
validateVars == << oldSpec, newSpec, validateErr >>
icmpVars == << sgName, sgOwned, sgRulesNil, sgRules, sgTouched, icmpResult, icmpCalls >>
passVars == << pstored, pobj, ppc, psteps, pfailed, pres, presult >>
patchVars == << ustored, uold, ukind, umodify, ulock, ustale, uforeign, upc, upatches, uerr >>
helperVars == << hobj, hcreator, hrecreate, hmodifier, hruns, hwrites, htouched, herr >>
addonVars == << adaddon, adcluster, addir, adenforce, adsteps, adfailed, adresult,
               adtemplate, adobjects, adpruned >>
featureVars == << fold, fnew, ferrs, fever >>
cniVars == << noldCni, nnewCni, nlabels, nerr >>
projectVars == << jproject, jbindings, jlast, jwrites, jfailed, jnotfound, jquiet, jerr >>
vars == << deletionVars, reconcileVars, infraVars, vappVars, validateVars, icmpVars, passVars, patchVars, helperVars, addonVars, featureVars, cniVars, projectVars >>

\* What each part of the model leaves alone.
outsideDeletion == << reconcileVars, infraVars, vappVars, validateVars, icmpVars, passVars, patchVars, helperVars, addonVars, featureVars, cniVars, projectVars >>
outsideReconcile == << deletionVars, infraVars, vappVars, validateVars, icmpVars, passVars, patchVars, helperVars, addonVars, featureVars, cniVars, projectVars >>
outsideInfra == << deletionVars, reconcileVars, vappVars, validateVars, icmpVars, passVars, patchVars, helperVars, addonVars, featureVars, cniVars, projectVars >>
outsideVApp == << deletionVars, reconcileVars, infraVars, validateVars, icmpVars, passVars, patchVars, helperVars, addonVars, featureVars, cniVars, projectVars >>
outsideValidate == << deletionVars, reconcileVars, infraVars, vappVars, icmpVars, passVars, patchVars, helperVars, addonVars, featureVars, cniVars, projectVars >>
outsideICMP == << deletionVars, reconcileVars, infraVars, vappVars, validateVars, passVars, patchVars, helperVars, addonVars, featureVars, cniVars, projectVars >>
outsidePass == << deletionVars, reconcileVars, infraVars, vappVars, validateVars, icmpVars, patchVars, helperVars, addonVars, featureVars, cniVars, projectVars >>
outsidePatch == << deletionVars, reconcileVars, infraVars, vappVars, validateVars, icmpVars, passVars, helperVars, addonVars, featureVars, cniVars, projectVars >>
outsideHelper == << deletionVars, reconcileVars, infraVars, vappVars, validateVars, icmpVars, passVars, patchVars, addonVars, featureVars, cniVars, projectVars >>
outsideAddon == << deletionVars, reconcileVars, infraVars, vappVars, validateVars, icmpVars, passVars, patchVars, helperVars, featureVars, cniVars, projectVars >>
outsideFeature == << deletionVars, reconcileVars, infraVars, vappVars, validateVars, icmpVars, passVars, patchVars, helperVars, addonVars, cniVars, projectVars >>
outsideCNI == << deletionVars, reconcileVars, infraVars, vappVars, validateVars, icmpVars, passVars, patchVars, helperVars, addonVars, featureVars, projectVars >>
outsideProject == << deletionVars, reconcileVars, infraVars, vappVars, validateVars, icmpVars, passVars, patchVars, helperVars, addonVars, featureVars, cniVars >>

\* The variables of each part while another part is looked at.
ReconcileUnused ==
    updating = << >> /\ wpc = << >> /\ wcluster = << >> /\ wresult = << >>

InfraUnused ==
    /\ seedSpec = << >> /\ acluster = << >> /\ astart = << >> /\ assign = "nil"
    /\ aop = "none" /\ apc = 0 /\ areconciled = << >> /\ aresult = "none"

VAppUnused ==
    /\ vseed = << >> /\ vcluster = << >> /\ vapps = {} /\ vpc = "idle"
    /\ vresult = "none" /\ netLookup = << >>

ValidateUnused ==
    oldSpec = << >> /\ newSpec = << >> /\ validateErr = "unset"

ICMPUnused ==
    /\ sgName = "" /\ sgOwned = FALSE /\ sgRulesNil = FALSE /\ sgRules = {}
    /\ sgTouched = FALSE /\ icmpResult = "none" /\ icmpCalls = << >>

PassUnused ==
    /\ pstored = << >> /\ pobj = << >> /\ ppc = "idle" /\ psteps = << >>
    /\ pfailed = {} /\ pres = 0 /\ presult = << >>

PatchUnused ==
    /\ ustored = << >> /\ uold = << >> /\ ukind = "none" /\ umodify = "none"
    /\ ulock = FALSE /\ ustale = FALSE /\ uforeign = {} /\ upc = "idle"
    /\ upatches = << >> /\ uerr = "none"

HelperUnused ==
    /\ hobj = << >> /\ hcreator = "" /\ hrecreate = FALSE /\ hmodifier = FALSE
    /\ hruns = 0 /\ hwrites = << >> /\ htouched = FALSE /\ herr = "none"

AddonUnused ==
    /\ adaddon = << >> /\ adcluster = "gone" /\ addir = FALSE /\ adenforce = FALSE
    /\ adsteps = << >> /\ adfailed = { } /\ adresult = << >>
    /\ adtemplate = { } /\ adobjects = { } /\ adpruned = { }

FeatureUnused ==
    /\ fold = << >> /\ fnew = << >> /\ ferrs = { } /\ fever = { }

CNIUnused ==
    /\ noldCni = << >> /\ nnewCni = << >> /\ nlabels = { } /\ nerr = "unset"

ProjectUnused ==
    /\ jproject = << >> /\ jbindings = << >> /\ jlast = "none" /\ jwrites = << >>
    /\ jfailed = { } /\ jnotfound = { } /\ jquiet = FALSE /\ jerr = "none"

DeletionUnused ==
    /\ finalizers = {} /\ azure = {} /\ crbs = 0
    /\ lbServices = 0 /\ lbsPending = 0 /\ pvs = 0 /\ nodes = 0
    /\ lbDeleting = FALSE /\ pvDeleting = FALSE /\ nodeDeleting = FALSE
    /\ pc = "idle" /\ cluster = {} /\ attempted = {}
    /\ deletedSomeResource = FALSE /\ lbsAreGone = "unchecked" /\ result = "none"
    /\ cidx = 0 /\ cphase = "check" /\ ccluster = {} /\ deleteResult = "none"
    /\ cresult = "none"

\* ------------------------------------------------------------------- Init
\* A cluster whose deletion timestamp has just been set.  The finalizers of
\* the constraint, etcd-backup and cluster-role-binding stages are on it (later
\* passes see the cluster without them); those of the in-cluster stages and of
\* the credentials may or may not be.  Of the six Azure resources at most one
\* deviates: either the user brought it along (it has no cleanup finalizer)
\* or it was already deleted out-of-band (it has the finalizer, but is gone).
AzureDeviations ==
    { << {}, {} >> }
        \cup { << {f}, {} >> : f \in AzureFinalizers }
        \cup { << {}, {f} >> : f \in AzureFinalizers }

\* The finalizers a cluster may or may not carry besides those of stages 1, 4, 6.
OptionalFinalizers ==
    { InClusterLBCleanupFinalizer, InClusterPVCleanupFinalizer,
      NodeDeletionFinalizer, CredentialsSecretsCleanupFinalizer }

\* The state in which the deletion of a cluster starts, given its optional
\* finalizers q, its Azure cleanup finalizers and the Azure resources that exist.
DeletionStarts(q, azureFinalizers, azureResources) ==
    /\ finalizers = { KubermaticConstraintCleanupFinalizer,
                      EtcdBackupConfigCleanupFinalizer,
                      ClusterRoleBindingsCleanupFinalizer }
                        \cup q \cup azureFinalizers
    /\ azure = azureResources
    /\ lbServices = MaxResources
    /\ lbsPending = 0
    /\ pvs = MaxResources
    /\ nodes = MaxResources
    /\ crbs = 1
    /\ lbDeleting = FALSE /\ pvDeleting = FALSE /\ nodeDeleting = FALSE
    /\ pc = "idle" /\ cluster = {} /\ attempted = {}
    /\ deletedSomeResource = FALSE /\ lbsAreGone = "unchecked" /\ result = "none"
    /\ cidx = 0 /\ cphase = "check" /\ ccluster = {} /\ deleteResult = "none"
    /\ cresult = "none"
    /\ ReconcileUnused /\ InfraUnused /\ VAppUnused /\ ValidateUnused /\ ICMPUnused /\ PassUnused /\ PatchUnused /\ HelperUnused /\ AddonUnused /\ FeatureUnused /\ CNIUnused /\ ProjectUnused

Init ==
    \E q \in SUBSET OptionalFinalizers :
       \E d \in AzureDeviations :
           DeletionStarts(q, AzureFinalizers \ d[1], AzureFinalizers \ d[2])

\* --------------------------------------------- the cluster controller's pass
\* kuberneteshelper.TryRemoveFinalizer: fetch the object, drop the names, patch.
\* The value is the finalizer list of the patched object, which is also what the
\* caller's object holds afterwards.
TryRemoveFinalizer(names) == RemoveFinalizer(finalizers, names)

\* CleanupCluster returns: "err" for an error, otherwise the nil return taken
\* ("halt-in-cluster", "halt-nodes" or "done").  Its object is dropped.
Return(how) ==
    /\ pc' = "idle"
    /\ cluster' = {}
    /\ result' = how

\* CleanupCluster goes on with the next stage, holding object c.
GoOn(stage, c) ==
    /\ pc' = stage
    /\ cluster' = c
    /\ UNCHANGED result

\* Reconciler.reconcile on a cluster with a deletion timestamp: a new pass.
StartPass ==
    /\ pc = "idle"
    /\ finalizers # {}
    /\ pc' = "cleanupConstraints"
    /\ cluster' = finalizers
    /\ attempted' = {}
    /\ deletedSomeResource' = FALSE
    /\ lbsAreGone' = "unchecked"
    /\ result' = "running"
    /\ UNCHANGED << finalizers, userClusterVars, crbs, azure, cloudVars >>
    /\ UNCHANGED outsideDeletion

\* Stage 1: delete the OPA constraints, then drop their finalizer.
CleanupConstraints ==
    /\ pc = "cleanupConstraints"
    /\ attempted' = attempted \cup {"cleanupConstraints"}
    /\ IF ~HasFinalizer(cluster, KubermaticConstraintCleanupFinalizer)
       THEN GoOn("cleanupInClusterResources", cluster) /\ UNCHANGED finalizers
       ELSE \/ Return("err") /\ UNCHANGED finalizers
            \/ /\ finalizers' = TryRemoveFinalizer({KubermaticConstraintCleanupFinalizer})
               /\ GoOn("cleanupInClusterResources", finalizers')
    /\ UNCHANGED << userClusterVars, crbs, azure, cloudVars,
                    deletedSomeResource, lbsAreGone >>
    /\ UNCHANGED outsideDeletion

\* cleanupLBs deletes every LoadBalancer service it lists and says whether it
\* deleted one.
CleanupLBs == lbServices > 0

\* cleanupVolumes deletes every volume it lists and says whether it deleted one.
CleanupVolumes == pvs > 0

\* deletedSomeLBs: cleanupLBs is called only when the LB finalizer is on the object.
DeletedSomeLBs(c) ==
    HasFinalizer(c, InClusterLBCleanupFinalizer) /\ CleanupLBs

\* deletedSomeVolumes, likewise, for the PV finalizer.
DeletedSomeVolumes(c) ==
    HasFinalizer(c, InClusterPVCleanupFinalizer) /\ CleanupVolumes

\* checkIfAllLoadbalancersAreGone: the direct check that none of the load
\* balancers recorded as deleted (deletedLBAnnotationName) remains.
CheckIfAllLoadbalancersAreGone == lbsPending = 0

\* Faulty variant: the early return after a deletion is missing.
InClusterCleanupDone_NoEarlyReturn(deletedSome, lbsGone) ==
    lbsGone

\* Faulty variant: the load balancer check is missing.
InClusterCleanupDone_NoLBCheck(deletedSome, lbsGone) ==
    ~deletedSome

\* Whether cleanupInClusterResources reaches its final TryRemoveFinalizer.
InClusterCleanupDone(deletedSome, lbsGone) ==
    ~deletedSome /\ lbsGone

\* Faulty variant: each finalizer is dropped as soon as its own resource class is empty.
InClusterFinalizersRemoved_Independent(c, deletedSome, lbsGone) ==
    (IF HasFinalizer(c, InClusterLBCleanupFinalizer) /\ lbServices = 0 /\ lbsGone
     THEN {InClusterLBCleanupFinalizer} ELSE {})
    \cup
    (IF HasFinalizer(c, InClusterPVCleanupFinalizer) /\ pvs = 0
     THEN {InClusterPVCleanupFinalizer} ELSE {})

\* The finalizers that final TryRemoveFinalizer call removes.
InClusterFinalizersRemoved(c, deletedSome, lbsGone) ==
    IF InClusterCleanupDone(deletedSome, lbsGone)
    THEN { InClusterLBCleanupFinalizer, InClusterPVCleanupFinalizer }
    ELSE {}

\* Faulty variant: the pass goes on although an in-cluster finalizer is left.
HaltAfterInClusterCleanup_Never(c) ==
    FALSE

\* CleanupCluster goes back after stage 2 while an in-cluster finalizer is left.
HaltAfterInClusterCleanup(c) ==
    HasAnyFinalizer(c, { InClusterLBCleanupFinalizer, InClusterPVCleanupFinalizer })

\* CleanupCluster goes back while there still are nodes.
HaltWhileNodesExist(c) ==
    HasFinalizer(c, NodeDeletionFinalizer)

\* Faulty variant: HasFinalizer where HasOnlyFinalizer is meant.
ShouldCleanUpCredentials_HasFinalizer(c) ==
    HasFinalizer(c, CredentialsSecretsCleanupFinalizer)

\* The credentials are cleaned up once their finalizer is the only one left.
ShouldCleanUpCredentials(c) ==
    HasOnlyFinalizer(c, CredentialsSecretsCleanupFinalizer)

\* Faulty variant: the credentials are cleaned up as soon as stage 6 is through.
CredentialsCleanupDue_Unguarded(c) ==
    HasFinalizer(c, CredentialsSecretsCleanupFinalizer)

\* Faulty variant: the node-deletion check is inverted.
CredentialsCleanupDue_InvertedNodeCheck(c) ==
    HaltWhileNodesExist(c) /\ ShouldCleanUpCredentials(c)

\* The tail of CleanupCluster: whether a pass whose stage 6 left object c
\* goes on to clean up the credentials.
CredentialsCleanupDue(c) ==
    ~HaltWhileNodesExist(c) /\ ShouldCleanUpCredentials(c)

\* The load balancers recorded as deleted once cleanupLBs has run on object c.
LBsPendingAfterCleanup(c) ==
    IF DeletedSomeLBs(c) /\ ~lbDeleting THEN lbsPending + lbServices ELSE lbsPending

\* Stage 2 and the check after it.
CleanupInClusterResources ==
    /\ pc = "cleanupInClusterResources"
    /\ attempted' = attempted \cup {"cleanupInClusterResources"}
    /\ IF ~HasAnyFinalizer(cluster, { InClusterLBCleanupFinalizer, InClusterPVCleanupFinalizer })
       THEN /\ GoOn("cleanupEtcdBackupConfigs", cluster)
            /\ UNCHANGED << finalizers, lbDeleting, lbsPending, pvDeleting,
                            deletedSomeResource, lbsAreGone >>
       ELSE \/ /\ Return("err")
               /\ UNCHANGED << finalizers, lbDeleting, lbsPending, pvDeleting,
                               deletedSomeResource, lbsAreGone >>
            \/ \* cleanupVolumes fails after cleanupLBs has run
               /\ HasFinalizer(cluster, InClusterPVCleanupFinalizer)
               /\ lbDeleting' = (lbDeleting \/ DeletedSomeLBs(cluster))
               /\ lbsPending' = LBsPendingAfterCleanup(cluster)
               /\ deletedSomeResource' = DeletedSomeLBs(cluster)
               /\ Return("err")
               /\ UNCHANGED << finalizers, pvDeleting, lbsAreGone >>
            \/ LET deletedSome == DeletedSomeLBs(cluster) \/ DeletedSomeVolumes(cluster)
                   removed == InClusterFinalizersRemoved(cluster, deletedSome,
                                                         CheckIfAllLoadbalancersAreGone)
                   after == IF removed # {} THEN TryRemoveFinalizer(removed) ELSE cluster
               IN  /\ lbDeleting' = (lbDeleting \/ DeletedSomeLBs(cluster))
                   /\ lbsPending' = LBsPendingAfterCleanup(cluster)
                   /\ pvDeleting' = (pvDeleting \/ DeletedSomeVolumes(cluster))
                   /\ deletedSomeResource' = deletedSome
                   /\ lbsAreGone' = IF deletedSome THEN "unchecked"
                                    ELSE IF CheckIfAllLoadbalancersAreGone THEN "gone"
                                    ELSE "remaining"
                   /\ finalizers' = IF removed # {} THEN after ELSE finalizers
                   /\ IF HaltAfterInClusterCleanup(after)
                      THEN Return("halt-in-cluster")
                      ELSE GoOn("cleanupEtcdBackupConfigs", after)
    /\ UNCHANGED << lbServices, pvs, nodes, nodeDeleting, crbs, azure, cloudVars >>
    /\ UNCHANGED outsideDeletion

\* Stage 4: delete the etcd backup configs, then drop their finalizer.
CleanupEtcdBackupConfigs ==
    /\ pc = "cleanupEtcdBackupConfigs"
    /\ attempted' = attempted \cup {"cleanupEtcdBackupConfigs"}
    /\ IF ~HasFinalizer(cluster, EtcdBackupConfigCleanupFinalizer)
       THEN GoOn("cleanupNodes", cluster) /\ UNCHANGED finalizers
       ELSE \/ Return("err") /\ UNCHANGED finalizers
            \/ /\ finalizers' = TryRemoveFinalizer({EtcdBackupConfigCleanupFinalizer})
               /\ GoOn("cleanupNodes", finalizers')
    /\ UNCHANGED << userClusterVars, crbs, azure, cloudVars,
                    deletedSomeResource, lbsAreGone >>
    /\ UNCHANGED outsideDeletion

\* Stage 5: delete the machines; the finalizer goes once none is listed.
CleanupNodes ==
    /\ pc = "cleanupNodes"
    /\ attempted' = attempted \cup {"cleanupNodes"}
    /\ IF ~HasFinalizer(cluster, NodeDeletionFinalizer)
       THEN GoOn("cleanupClusterRoleBindings", cluster) /\ UNCHANGED << finalizers, nodeDeleting >>
       ELSE \/ Return("err") /\ UNCHANGED << finalizers, nodeDeleting >>
            \/ IF nodes > 0
               THEN /\ nodeDeleting' = TRUE
                    /\ GoOn("cleanupClusterRoleBindings", cluster)
                    /\ UNCHANGED finalizers
               ELSE /\ finalizers' = TryRemoveFinalizer({NodeDeletionFinalizer})
                    /\ GoOn("cleanupClusterRoleBindings", finalizers')
                    /\ UNCHANGED nodeDeleting
    /\ UNCHANGED << lbServices, lbDeleting, lbsPending, pvs, pvDeleting, nodes, crbs,
                    azure, cloudVars, deletedSomeResource, lbsAreGone >>
    /\ UNCHANGED outsideDeletion

\* Stage 6 and the two checks after it.
CleanupClusterRoleBindings ==
    /\ pc = "cleanupClusterRoleBindings"
    /\ attempted' = attempted \cup {"cleanupClusterRoleBindings"}
    /\ \/ Return("err") /\ UNCHANGED finalizers
       \/ /\ finalizers' = TryRemoveFinalizer({ClusterRoleBindingsCleanupFinalizer})
          /\ IF CredentialsCleanupDue(finalizers')
             THEN GoOn("cleanUpCredentialsSecrets", finalizers')
             ELSE Return(IF HaltWhileNodesExist(finalizers') THEN "halt-nodes" ELSE "done")
    /\ UNCHANGED << userClusterVars, crbs, azure, cloudVars,
                    deletedSomeResource, lbsAreGone >>
    /\ UNCHANGED outsideDeletion

\* Stage 9: delete the credential secrets and drop their finalizer.
CleanUpCredentialsSecrets ==
    /\ pc = "cleanUpCredentialsSecrets"
    /\ attempted' = attempted \cup {"cleanUpCredentialsSecrets"}
    /\ \/ Return("err") /\ UNCHANGED finalizers
       \/ /\ finalizers' = TryRemoveFinalizer({CredentialsSecretsCleanupFinalizer})
          /\ Return("done")
    /\ UNCHANGED << userClusterVars, crbs, azure, cloudVars,
                    deletedSomeResource, lbsAreGone >>
    /\ UNCHANGED outsideDeletion

\* ------------------------------------------ the cloud controller's cleanup
\* The first position at or after i whose finalizer is on the call's object,
\* 0 when there is none: the HasFinalizer checks that guard each block.
NextPresent(c, i) ==
    LET later == { j \in i..Len(AzureCleanupOrder) : HasFinalizer(c, AzureCleanupOrder[j]) }
    IN  IF later = {} THEN 0 ELSE CHOOSE j \in later : \A k \in later : j <= k

\* What a provider delete call can answer for resource r.
DeleteAnswers(r) ==
    IF r \in azure THEN {"ok", "error"} ELSE {"notfound", "error"}

\* Faulty variant: a 404 is treated like any other error.
IsFatalDeleteError_NotFoundToo(answer) ==
    answer # "ok"

\* Faulty variant: no answer of the provider aborts the cleanup.
IsFatalDeleteError_Never(answer) ==
    FALSE

\* An answer aborts the cleanup unless it is a success or a 404.
IsFatalDeleteError(answer) ==
    answer \notin {"ok", "notfound"}

\* Faulty variant: the cloud cleanup does not wait for the node deletion.
CloudCleanupAllowed_IgnoresNodes(c) ==
    ~HasAnyFinalizer(c, { InClusterLBCleanupFinalizer, InClusterPVCleanupFinalizer })

\* Cloud infrastructure is cleaned up only once no finalizer for resources
\* inside the user cluster is left on the cluster.
CloudCleanupAllowed(c) ==
    ~HasAnyFinalizer(c, InClusterFinalizers)

\* The cloud controller reconciles the deleted cluster: it waits while
\* in-cluster finalizers remain, otherwise it enters CleanUpCloudProvider,
\* which first resolves the credentials and the client set.
CloudStart ==
    /\ cidx = 0
    /\ finalizers # {}
    /\ deleteResult' = "none"
    /\ cphase' = "check"
    /\ IF ~CloudCleanupAllowed(finalizers)
       THEN cidx' = 0 /\ cresult' = "requeue" /\ ccluster' = {}
       ELSE \/ cidx' = 0 /\ cresult' = "err" /\ ccluster' = {}
            \/ cidx' = 1 /\ cresult' = "running" /\ ccluster' = finalizers
    /\ UNCHANGED << finalizers, userClusterVars, crbs, azure, pipelineVars >>
    /\ UNCHANGED outsideDeletion

\* The next block whose finalizer is present calls the provider's delete.
CloudDelete ==
    /\ cidx > 0
    /\ cphase = "check"
    /\ LET i == NextPresent(ccluster, cidx)
       IN  IF i = 0
           THEN /\ cidx' = 0
                /\ cresult' = "nil"
                /\ ccluster' = {}
                /\ UNCHANGED << azure, cphase, deleteResult >>
           ELSE \E answer \in DeleteAnswers(AzureCleanupOrder[i]) :
                   /\ deleteResult' = answer
                   /\ azure' = IF answer = "ok" THEN azure \ {AzureCleanupOrder[i]} ELSE azure
                   /\ IF IsFatalDeleteError(answer)
                      THEN cidx' = 0 /\ cresult' = "err" /\ ccluster' = {} /\ UNCHANGED cphase
                      ELSE cidx' = i /\ cphase' = "update" /\ UNCHANGED << cresult, ccluster >>
    /\ UNCHANGED << finalizers, userClusterVars, crbs, pipelineVars >>
    /\ UNCHANGED outsideDeletion

\* The updater removes the block's finalizer from the freshly read object and
\* hands the updated object back; a failed update ends the call.
CloudUpdate ==
    /\ cidx > 0
    /\ cphase = "update"
    /\ \/ /\ cidx' = 0
          /\ cresult' = "err"
          /\ ccluster' = {}
          /\ UNCHANGED finalizers
       \/ /\ finalizers' = RemoveFinalizer(finalizers, {AzureCleanupOrder[cidx]})
          /\ ccluster' = finalizers'
          /\ cidx' = cidx + 1
          /\ UNCHANGED cresult
    /\ cphase' = "check"
    /\ deleteResult' = "none"
    /\ UNCHANGED << azure, userClusterVars, crbs, pipelineVars >>
    /\ UNCHANGED outsideDeletion

\* ------------------------------------------------------------ environment
\* A service whose deletion was requested leaves the user cluster's API.
LBServiceGone ==
    /\ lbDeleting /\ lbServices > 0
    /\ lbServices' = lbServices - 1
    /\ UNCHANGED << finalizers, lbDeleting, lbsPending, pvs, pvDeleting, nodes,
                    nodeDeleting, crbs, azure, pipelineVars, cloudVars >>
    /\ UNCHANGED outsideDeletion

\* The load balancer behind a vanished service is confirmed gone.
LBConfirmedGone ==
    /\ lbsPending > (IF lbDeleting THEN lbServices ELSE 0)
    /\ lbsPending' = lbsPending - 1
    /\ UNCHANGED << finalizers, lbServices, lbDeleting, pvs, pvDeleting, nodes,
                    nodeDeleting, crbs, azure, pipelineVars, cloudVars >>
    /\ UNCHANGED outsideDeletion

VolumeGone ==
    /\ pvDeleting /\ pvs > 0
    /\ pvs' = pvs - 1
    /\ UNCHANGED << finalizers, lbServices, lbDeleting, lbsPending, pvDeleting, nodes,
                    nodeDeleting, crbs, azure, pipelineVars, cloudVars >>
    /\ UNCHANGED outsideDeletion

NodeGone ==
    /\ nodeDeleting /\ nodes > 0
    /\ nodes' = nodes - 1
    /\ UNCHANGED << finalizers, lbServices, lbDeleting, lbsPending, pvs, pvDeleting,
                    nodeDeleting, crbs, azure, pipelineVars, cloudVars >>
    /\ UNCHANGED outsideDeletion

\* Once the Cluster object is gone, the garbage collector follows the owner
\* references and removes the ClusterRoleBindings.
ClusterRoleBindingsCollected ==
    /\ finalizers = {}
    /\ crbs > 0
    /\ crbs' = 0
    /\ UNCHANGED << finalizers, userClusterVars, azure, pipelineVars, cloudVars >>
    /\ UNCHANGED outsideDeletion

Next ==
    \/ StartPass
    \/ CleanupConstraints
    \/ CleanupInClusterResources
    \/ CleanupEtcdBackupConfigs
    \/ CleanupNodes
    \/ CleanupClusterRoleBindings
    \/ CleanUpCredentialsSecrets
    \/ CloudStart
    \/ CloudDelete
    \/ CloudUpdate
    \/ LBServiceGone
    \/ LBConfirmedGone
    \/ VolumeGone
    \/ NodeGone
    \/ ClusterRoleBindingsCollected

Spec == Init /\ [][Next]_vars

\* ---------------------------------------------------------------- fairness
\* The cluster controller requeues a deleted cluster after every pass, and the
\* cloud controller keeps reconciling it; every external call may fail, but
\* succeeds again and again; what was deleted eventually disappears.
DeletionFairness ==
    /\ WF_vars(StartPass)
    /\ SF_vars(CleanupConstraints /\ result' # "err")
    /\ SF_vars(CleanupInClusterResources /\ result' # "err")
    /\ SF_vars(CleanupEtcdBackupConfigs /\ result' # "err")
    /\ SF_vars(CleanupNodes /\ result' # "err")
    /\ SF_vars(CleanupClusterRoleBindings /\ result' # "err")
    /\ SF_vars(CleanUpCredentialsSecrets /\ result' # "err")
    /\ SF_vars(CloudStart /\ cidx' = 1)
    /\ SF_vars(CloudDelete /\ cresult' # "err")
    /\ SF_vars(CloudUpdate /\ cresult' # "err")
    /\ WF_vars(LBServiceGone)
    /\ WF_vars(LBConfirmedGone)
    /\ WF_vars(VolumeGone)
    /\ WF_vars(NodeGone)

\* Clusters on pre-existing infrastructure: the provider owns the security
\* group only, and the group may be gone already.
LiveInit ==
    \E q \in SUBSET OptionalFinalizers :
       \E gone \in SUBSET { FinalizerSecurityGroup } :
           DeletionStarts(q, { FinalizerSecurityGroup }, AzureFinalizers \ gone)

LiveSpec == LiveInit /\ [][Next]_vars /\ DeletionFairness

\* ------------------------------------- the cluster controller's admission
\* Reconciler.Reconcile, run by several workers of one controller over the
\* clusters of a seed.  The work queue hands a cluster to one worker at a time.
MaxClusters == 3
NumWorkers == 2
ConcurrentClusterUpdates == 1
RequeueAfterSeconds == 10

Clusters == 1..MaxClusters
Workers == 1..NumWorkers

NoResult == [ requeueAfter |-> 0, reconciled |-> FALSE ]

ReconcileInit ==
    /\ updating \in [ Clusters -> BOOLEAN ]
    /\ wpc = [ w \in Workers |-> "idle" ]
    /\ wcluster = [ w \in Workers |-> 0 ]
    /\ wresult = [ w \in Workers |-> NoResult ]
    /\ DeletionUnused /\ InfraUnused /\ VAppUnused /\ ValidateUnused /\ ICMPUnused /\ PassUnused /\ PatchUnused /\ HelperUnused /\ AddonUnused /\ FeatureUnused /\ CNIUnused /\ ProjectUnused

\* The clusters that have an update in progress.
ClustersUpdating == { c \in Clusters : updating[c] }

\* controllerutil.ClusterAvailableForReconciling: fewer clusters than the
\* ceiling have an update in progress.
ClusterAvailableForReconciling(c, limit) ==
    Cardinality(ClustersUpdating) < limit

\* Faulty variant: the answer of the availability check is not looked at.
AdmissionPasses_IgnoresAvailable(available, err) ==
    ~err

\* The wrapped function goes on to r.reconcile unless `!available || err != nil`.
AdmissionPasses(available, err) ==
    ~(~available \/ err)

\* A worker takes a request off the queue, reads the cluster and stamps its
\* status; the cluster has a control plane version.
Dequeue(w, c) ==
    /\ wpc[w] = "idle"
    /\ \A v \in Workers : wcluster[v] # c
    /\ wpc' = [ wpc EXCEPT ![w] = "check" ]
    /\ wcluster' = [ wcluster EXCEPT ![w] = c ]
    /\ wresult' = [ wresult EXCEPT ![w] = NoResult ]
    /\ UNCHANGED << updating, outsideReconcile >>

\* The concurrency check at the head of the wrapped function.
Admission(w) ==
    /\ wpc[w] = "check"
    /\ \E err \in BOOLEAN :
          LET available == ClusterAvailableForReconciling(wcluster[w], ConcurrentClusterUpdates)
          IN  IF AdmissionPasses(available, err)
              THEN /\ wpc' = [ wpc EXCEPT ![w] = "admitted" ]
                   /\ UNCHANGED << wcluster, wresult >>
              ELSE /\ wpc' = [ wpc EXCEPT ![w] = "idle" ]
                   /\ wcluster' = [ wcluster EXCEPT ![w] = 0 ]
                   /\ wresult' = [ wresult EXCEPT ![w] =
                                     [ requeueAfter |-> RequeueAfterSeconds,
                                       reconciled |-> FALSE ] ]
    /\ UNCHANGED << updating, outsideReconcile >>

\* r.reconcile starts: health sync, then cleanup or reconcileCluster.  The work
\* may put the cluster into an update.
StartReconcile(w) ==
    /\ wpc[w] = "admitted"
    /\ wpc' = [ wpc EXCEPT ![w] = "reconciling" ]
    /\ \E starts \in BOOLEAN :
          updating' = [ updating EXCEPT ![wcluster[w]] = @ \/ starts ]
    /\ UNCHANGED << wcluster, wresult, outsideReconcile >>

\* r.reconcile returns; the deletion branch always asks for a requeue.
FinishReconcile(w) ==
    /\ wpc[w] = "reconciling"
    /\ wpc' = [ wpc EXCEPT ![w] = "idle" ]
    /\ wcluster' = [ wcluster EXCEPT ![w] = 0 ]
    /\ \E after \in { 0, RequeueAfterSeconds } :
          wresult' = [ wresult EXCEPT ![w] = [ requeueAfter |-> after, reconciled |-> TRUE ] ]
    /\ UNCHANGED << updating, outsideReconcile >>

\* The control plane of a cluster reaches its declared state.
UpdateFinished(c) ==
    /\ updating[c]
    /\ \A w \in Workers : ~(wcluster[w] = c /\ wpc[w] = "reconciling")
    /\ updating' = [ updating EXCEPT ![c] = FALSE ]
    /\ UNCHANGED << wpc, wcluster, wresult, outsideReconcile >>

ReconcileNext ==
    \/ \E w \in Workers, c \in Clusters : Dequeue(w, c)
    \/ \E w \in Workers : Admission(w)
    \/ \E w \in Workers : StartReconcile(w)
    \/ \E w \in Workers : FinishReconcile(w)
    \/ \E c \in Clusters : UpdateFinished(c)

ReconcileSpec == ReconcileInit /\ [][ReconcileNext]_vars

\* ------------------------------------------------ Azure.reconcileCluster
\* The infrastructure pieces in the order reconcileCluster looks at them, named
\* by their field of cluster.Spec.Cloud.Azure.
ReconcileOrder ==
    << "ResourceGroup", "VNetName", "SubnetName", "RouteTableName",
       "SecurityGroup", "AvailabilitySet" >>

Pieces == { ReconcileOrder[i] : i \in 1..Len(ReconcileOrder) }

\* Faulty variant: the two entry points pass each other's `force`.
Force_Swapped(op) ==
    op = "InitializeCloudProvider"

\* The `force` argument the entry point passes to reconcileCluster.
Force(op) ==
    op = "ReconcileCluster"

\* Faulty variant: `force` is not looked at.
ShouldReconcile_IgnoresForce(force, value) ==
    value = ""

\* `force || cluster.Spec.Cloud.Azure.<field> == ""`
ShouldReconcile(force, value) ==
    force \/ value = ""

\* `AssignAvailabilitySet == nil || *AssignAvailabilitySet`
AvailabilitySetAssigned(a) ==
    a = "nil" \/ a = "true"

\* reconcileResourceGroup, reconcileVNet, ...: make sure the piece exists and
\* persist its name on the cluster through the updater.
Persisted(spec, piece) ==
    [ spec EXCEPT ![piece] = IF @ = "" THEN "generated" ELSE @ ]

\* The pieces the running or last call has reconciled.
Reconciled == { areconciled[i] : i \in 1..Len(areconciled) }

InfraInit ==
    /\ seedSpec \in [ Pieces -> { "", "given" } ]
    /\ assign \in { "nil", "true", "false" }
    /\ acluster = seedSpec /\ astart = seedSpec
    /\ aop = "none" /\ apc = 0 /\ areconciled = << >> /\ aresult = "none"
    /\ DeletionUnused /\ ReconcileUnused /\ VAppUnused /\ ValidateUnused /\ ICMPUnused /\ PassUnused /\ PatchUnused /\ HelperUnused /\ AddonUnused /\ FeatureUnused /\ CNIUnused /\ ProjectUnused

\* InitializeCloudProvider or ReconcileCluster is called with the cluster as
\* stored; credentials and client set are resolved first.
InfraStart(op) ==
    /\ apc = 0
    /\ aop' = op
    /\ astart' = seedSpec
    /\ acluster' = seedSpec
    /\ areconciled' = << >>
    /\ \/ apc' = 0 /\ aresult' = "err"
       \/ apc' = 1 /\ aresult' = "running"
    /\ UNCHANGED << seedSpec, assign, outsideInfra >>

\* One `if force || ... == ""` block of reconcileCluster.
InfraStep ==
    /\ apc \in 1..Len(ReconcileOrder)
    /\ LET piece == ReconcileOrder[apc]
           due == /\ ShouldReconcile(Force(aop), acluster[piece])
                  /\ piece = "AvailabilitySet" => AvailabilitySetAssigned(assign)
       IN  IF ~due
           THEN /\ apc' = apc + 1
                /\ UNCHANGED << seedSpec, acluster, areconciled, aresult >>
           ELSE /\ areconciled' = Append(areconciled, piece)
                /\ \/ /\ apc' = 0
                      /\ aresult' = "err"
                      /\ UNCHANGED << seedSpec, acluster >>
                   \/ /\ seedSpec' = Persisted(seedSpec, piece)
                      /\ acluster' = seedSpec'
                      /\ apc' = apc + 1
                      /\ UNCHANGED aresult
    /\ UNCHANGED << astart, assign, aop, outsideInfra >>

\* `return cluster, nil`
InfraReturn ==
    /\ apc = Len(ReconcileOrder) + 1
    /\ apc' = 0
    /\ aresult' = "ok"
    /\ UNCHANGED << seedSpec, acluster, astart, assign, aop, areconciled, outsideInfra >>

InfraNext ==
    \/ \E op \in { "InitializeCloudProvider", "ReconcileCluster" } : InfraStart(op)
    \/ InfraStep
    \/ InfraReturn

InfraSpec == InfraInit /\ [][InfraNext]_vars

\* ------------------------------------- VMware Cloud Director: reconcileVApp
ClusterNames == { "c1", "c2" }

\* fmt.Sprintf(resourceNamePattern, cluster.Name)
ResourceName(name) ==
    "kubernetes-" \o name

\* The vApp names the spec may carry and the vApps that may exist remotely.
VAppNames == { ResourceName(n) : n \in ClusterNames } \cup { "custom" }

\* The name reconcileVApp works with: the spec's, or the default when the
\* spec has none.
VAppNameOf(c) ==
    IF c.VApp = "" THEN ResourceName(c.Name) ELSE c.VApp

VAppInit ==
    /\ vseed \in [ Name : ClusterNames, VApp : { "" } \cup VAppNames, Finalizer : BOOLEAN ]
    /\ vcluster = vseed
    /\ vapps \in SUBSET VAppNames
    /\ vpc = "idle" /\ vresult = "none" /\ netLookup = << >>
    /\ DeletionUnused /\ ReconcileUnused /\ InfraUnused /\ ValidateUnused /\ ICMPUnused /\ PassUnused /\ PatchUnused /\ HelperUnused /\ AddonUnused /\ FeatureUnused /\ CNIUnused /\ ProjectUnused

\* reconcileVApp is called with the stored cluster and first makes sure the
\* finalizer is on it.
VAppEnsureFinalizer ==
    /\ vpc = "idle"
    /\ netLookup' = << >>
    /\ IF vseed.Finalizer
       THEN /\ vcluster' = vseed
            /\ vpc' = "lookup" /\ vresult' = "running"
            /\ UNCHANGED vseed
       ELSE \/ /\ vresult' = "err" /\ vpc' = "idle"
               /\ vcluster' = vseed
               /\ UNCHANGED vseed
            \/ /\ vseed' = [ vseed EXCEPT !.Finalizer = TRUE ]
               /\ vcluster' = vseed'
               /\ vpc' = "lookup" /\ vresult' = "running"
    /\ UNCHANGED << vapps, outsideVApp >>

\* vdc.GetVAppByNameOrId(vAppName, true) and the branches on its answer.
VAppLookup ==
    /\ vpc = "lookup"
    /\ \/ /\ vresult' = "err" /\ vpc' = "idle"
       \/ /\ VAppNameOf(vcluster) \notin vapps
          /\ vpc' = "create" /\ UNCHANGED vresult
       \/ /\ VAppNameOf(vcluster) \in vapps
          /\ vresult' = "ok" /\ vpc' = "network"
    /\ UNCHANGED << vseed, vcluster, vapps, netLookup, outsideVApp >>

\* vdc.CreateRawVApp followed by the update that stores the name.
VAppCreate ==
    /\ vpc = "create"
    /\ \/ /\ vresult' = "err" /\ vpc' = "idle"
          /\ UNCHANGED << vseed, vcluster, vapps >>
       \/ /\ vapps' = vapps \cup { VAppNameOf(vcluster) }
          /\ \/ /\ vresult' = "err" /\ vpc' = "idle"
                /\ UNCHANGED << vseed, vcluster >>
             \/ /\ vseed' = [ vseed EXCEPT !.VApp = VAppNameOf(vcluster) ]
                /\ vcluster' = vseed'
                /\ vresult' = "ok" /\ vpc' = "network"
    /\ UNCHANGED << netLookup, outsideVApp >>

\* reconcileNetwork on the cluster reconcileVApp returned: the network is
\* fetched, then the vApp is looked up by the name on the cluster's spec.
VAppReconcileNetwork ==
    /\ vpc = "network"
    /\ vpc' = "idle"
    /\ \/ /\ vresult' = "neterr"
          /\ UNCHANGED netLookup
       \/ /\ netLookup' = << vcluster.VApp >>
          /\ vresult' = IF vcluster.VApp \in vapps THEN "netok" ELSE "neterr"
    /\ UNCHANGED << vseed, vcluster, vapps, outsideVApp >>

VAppNext ==
    \/ VAppEnsureFinalizer
    \/ VAppLookup
    \/ VAppCreate
    \/ VAppReconcileNetwork

VAppSpec == VAppInit /\ [][VAppNext]_vars

\* ------------------------------------------ Azure.ValidateCloudSpecUpdate
\* The fields ValidateCloudSpecUpdate compares, in the order it compares them.
ImmutableFields ==
    << "ResourceGroup", "VNetResourceGroup", "VNetName", "SubnetName",
       "RouteTableName", "SecurityGroup", "AvailabilitySet" >>

\* The fields of the Azure sub-spec in the model: the compared ones and one
\* that is not compared.
AzureSpecFields ==
    { ImmutableFields[i] : i \in 1..Len(ImmutableFields) } \cup { "LoadBalancerSKU" }

\* How many fields an update changes at most.
MaxChangedFields == 2

\* Faulty variant: a field that was empty may not change either.
FieldChanged_AnyChange(old, new, f) ==
    old[f] # new[f]

\* `oldSpec.Azure.X != "" && oldSpec.Azure.X != newSpec.Azure.X`
FieldChanged(old, new, f) ==
    old[f] # "" /\ old[f] # new[f]

\* The checks one after the other; the first that fires is the error.
RECURSIVE FirstRejected(_, _, _)
FirstRejected(old, new, i) ==
    IF i > Len(ImmutableFields) THEN "nil"
    ELSE IF FieldChanged(old, new, ImmutableFields[i]) THEN ImmutableFields[i]
    ELSE FirstRejected(old, new, i + 1)

ValidateCloudSpecUpdate(old, new) ==
    IF ~old.Azure \/ ~new.Azure THEN "'azure' spec is empty"
    ELSE FirstRejected(old.Spec, new.Spec, 1)

\* A spec without Azure sub-spec (a nil pointer) has no field values.
NoAzure == [ f \in AzureSpecFields |-> "" ]

\* The sub-specs an update can turn `old` into.
Updates(old) ==
    UNION { { [ f \in AzureSpecFields |-> IF f \in ch THEN v[f] ELSE old[f] ] :
                v \in [ ch -> { "", "a", "b" } ] } :
            ch \in { c \in SUBSET AzureSpecFields : Cardinality(c) <= MaxChangedFields } }

ValidateInit ==
    /\ \E oa \in BOOLEAN, na \in BOOLEAN :
        \E o \in (IF oa THEN [ AzureSpecFields -> { "", "a" } ] ELSE { NoAzure }) :
            \E n \in (IF na THEN Updates(o) ELSE { NoAzure }) :
                /\ oldSpec = [ Azure |-> oa, Spec |-> o ]
                /\ newSpec = [ Azure |-> na, Spec |-> n ]
    /\ validateErr = "unset"
    /\ DeletionUnused /\ ReconcileUnused /\ InfraUnused /\ VAppUnused /\ ICMPUnused /\ PassUnused /\ PatchUnused /\ HelperUnused /\ AddonUnused /\ FeatureUnused /\ CNIUnused /\ ProjectUnused

Validate ==
    /\ validateErr = "unset"
    /\ validateErr' = ValidateCloudSpecUpdate(oldSpec, newSpec)
    /\ UNCHANGED << oldSpec, newSpec, outsideValidate >>

ValidateNext == Validate

ValidateSpec == ValidateInit /\ [][ValidateNext]_vars

\* ------------------------------------------- Azure.AddICMPRulesIfRequired
BaselineRules == { "deny_all_tcp", "deny_all_udp", "icmp_by_allow_all" }

\* The rule names a security group may hold: the baseline and one of its own.
RuleNames == BaselineRules \cup { "custom" }

\* How many invocations are followed.
MaxInvocations == 3

\* The rules newSecurityRules is filled with: tcpDenyAllRule, udpDenyAllRule and
\* icmpAllowAllRule for each baseline name not found among the group's rules.
MissingRules(rules) ==
    BaselineRules \ rules

\* Faulty variant: the group is written whether or not a rule is missing.
UpdateNeeded_Always(missing) ==
    TRUE

\* `len(newSecurityRules) > 0`
UpdateNeeded(missing) ==
    missing # {}

\* Faulty variant: the update carries the new rules only.
UpdatedRules_OnlyNew(rules, new) ==
    new

\* `append(*sg.SecurityRules, newSecurityRules...)`
UpdatedRules(rules, new) ==
    rules \cup new

ICMPInit ==
    /\ sgName \in { "", "nsg" }
    /\ sgOwned \in BOOLEAN
    /\ sgRulesNil \in BOOLEAN
    /\ sgRules \in SUBSET RuleNames
    /\ sgRulesNil => sgRules = {}
    /\ sgTouched = FALSE /\ icmpResult = "none" /\ icmpCalls = << >>
    /\ DeletionUnused /\ ReconcileUnused /\ InfraUnused /\ VAppUnused /\ ValidateUnused /\ PassUnused /\ PatchUnused /\ HelperUnused /\ AddonUnused /\ FeatureUnused /\ CNIUnused /\ ProjectUnused

\* One invocation, from the credentials to the return.
AddICMPRulesIfRequired ==
    /\ Len(icmpCalls) < MaxInvocations
    /\ icmpResult # "panic"
    /\ sgTouched' = FALSE
    /\ \/ \* credentials, client or sgClient.Get fail
          /\ icmpResult' = "err"
          /\ icmpCalls' = Append(icmpCalls, 0)
          /\ UNCHANGED << sgRules, sgRulesNil >>
       \/ /\ sgName = "" \/ ~sgOwned \/ ~UpdateNeeded(MissingRules(sgRules))
          /\ icmpResult' = "nil"
          /\ icmpCalls' = Append(icmpCalls, 0)
          /\ UNCHANGED << sgRules, sgRulesNil >>
       \/ /\ sgName # "" /\ sgOwned /\ UpdateNeeded(MissingRules(sgRules))
          /\ IF sgRulesNil
             THEN \* `*sg.SecurityRules` of a nil pointer
                  /\ icmpResult' = "panic"
                  /\ icmpCalls' = Append(icmpCalls, 0)
                  /\ UNCHANGED << sgRules, sgRulesNil >>
             ELSE \/ /\ icmpResult' = "err"
                     /\ icmpCalls' = Append(icmpCalls, 1)
                     /\ UNCHANGED << sgRules, sgRulesNil >>
                  \/ /\ icmpResult' = "nil"
                     /\ icmpCalls' = Append(icmpCalls, 1)
                     /\ sgRules' = UpdatedRules(sgRules, MissingRules(sgRules))
                     /\ UNCHANGED sgRulesNil
    /\ UNCHANGED << sgName, sgOwned, outsideICMP >>

\* Somebody else changes the security group's rules or tags in Azure.
SecurityGroupEdited ==
    /\ icmpResult # "panic"
    /\ sgName # ""
    /\ \E owned \in BOOLEAN, isNil \in BOOLEAN, rules \in SUBSET RuleNames :
          /\ isNil => rules = {}
          /\ << owned, isNil, rules >> # << sgOwned, sgRulesNil, sgRules >>
          /\ sgOwned' = owned /\ sgRulesNil' = isNil /\ sgRules' = rules
    /\ sgTouched' = TRUE
    /\ UNCHANGED << sgName, icmpResult, icmpCalls, outsideICMP >>

ICMPNext ==
    \/ AddICMPRulesIfRequired
    \/ SecurityGroupEdited

ICMPSpec == ICMPInit /\ [][ICMPNext]_vars

\* --------------------------------------- Reconciler.Reconcile on a cluster
\* kubernetesprovider.NamespaceName(cluster.Name)
NamespaceName(name) ==
    "cluster-" \o name

\* RequeueAfter values a result of reconcileCluster may carry (0: none).
InnerRequeues == { 0, 30 }

NoPassResult == << >>

\* Faulty variant: the namespace name is stamped over whatever is there.
NeedsNamespaceName_Always(c) ==
    TRUE

\* `c.Status.NamespaceName == ""`
NeedsNamespaceName(c) ==
    c.NamespaceName = ""

\* The function reconcileClusterStatus hands to UpdateClusterStatus.
StampStatus(c) ==
    IF NeedsNamespaceName(c)
    THEN [ c EXCEPT !.NamespaceName = NamespaceName(c.Name) ]
    ELSE c

\* Faulty variant: a cluster without control-plane version is reconciled too.
ReadyForReconciling_Always(c) ==
    TRUE

\* `cluster.Status.Versions.ControlPlane == ""` sends the request away.
ReadyForReconciling(c) ==
    c.ControlPlane # ""

\* Faulty variant: the delay is given only when CleanupCluster succeeded.
CleanupResult_OnlyOnSuccess(err) ==
    IF err THEN 0 ELSE RequeueAfterSeconds

\* `&reconcile.Result{RequeueAfter: 10 * time.Second}`, returned next to
\* whatever CleanupCluster returns.
CleanupResult(err) ==
    RequeueAfterSeconds

\* Faulty variant: the deletion timestamp is not looked at.
BranchAfterHealth_IgnoresDeletion(c) ==
    "reconcile"

\* `if cluster.DeletionTimestamp != nil`
BranchAfterHealth(c) ==
    IF c.Deleting THEN "cleanup" ELSE "reconcile"

\* Faulty variant: the recorded error is left in place.
ClearedError_Kept(c) ==
    c

\* The function clearClusterError hands to UpdateClusterStatus.
ClearedError(c) ==
    [ c EXCEPT !.ErrorReason = "nil", !.ErrorMessage = "nil" ]

\* The function updateClusterError hands to UpdateClusterStatus.
RecordedError(c, reason, message) ==
    [ c EXCEPT !.ErrorReason = reason, !.ErrorMessage = message ]

\* UpdateClusterStatus, when it succeeds: the status fields of the modified
\* object are what the seed API stores.
StatusPatched(stored, c) ==
    [ stored EXCEPT !.NamespaceName = c.NamespaceName,
                    !.ErrorReason = c.ErrorReason,
                    !.ErrorMessage = c.ErrorMessage ]

Steps == { psteps[i] : i \in 1..Len(psteps) }

PassInit ==
    /\ pstored \in [ Name : ClusterNames,
                     NamespaceName : { "", "legacy" },
                     ControlPlane : { "", "1.27" },
                     Deleting : BOOLEAN,
                     ErrorReason : { "nil" },
                     ErrorMessage : { "nil" } ]
                  \cup
                  [ Name : ClusterNames,
                     NamespaceName : { "", "legacy" },
                     ControlPlane : { "", "1.27" },
                     Deleting : BOOLEAN,
                     ErrorReason : { "ReconcileClusterError" },
                     ErrorMessage : { "earlier failure" } ]
    /\ pobj = pstored
    /\ ppc = "idle" /\ psteps = << >> /\ pfailed = {} /\ pres = 0
    /\ presult = NoPassResult
    /\ DeletionUnused /\ ReconcileUnused /\ InfraUnused /\ VAppUnused /\ ValidateUnused /\ ICMPUnused /\ PatchUnused /\ HelperUnused /\ AddonUnused /\ FeatureUnused /\ CNIUnused /\ ProjectUnused

\* The invocation ends: `return *result, err`, a nil result standing for the
\* empty one.
PassReturn(requeueAfter, err) ==
    /\ ppc' = "idle"
    /\ presult' = [ requeueAfter |-> requeueAfter, err |-> err ]

\* The inner function returns to ClusterReconcileWrapper, which hands its
\* result on and adds an error of its own when it cannot store the condition.
WrapperReturn(requeueAfter, err) ==
    \E conditionErr \in BOOLEAN : PassReturn(requeueAfter, err \/ conditionErr)

\* r.Get
PassGet ==
    /\ ppc = "idle"
    /\ psteps' = << >> /\ pfailed' = {} /\ pres' = 0
    /\ \/ /\ PassReturn(0, TRUE)
          /\ UNCHANGED pobj
       \/ /\ pobj' = pstored
          /\ ppc' = "status"
          /\ presult' = NoPassResult
    /\ UNCHANGED << pstored, outsidePass >>

\* r.reconcileClusterStatus
PassReconcileClusterStatus ==
    /\ ppc = "status"
    /\ psteps' = Append(psteps, "reconcileClusterStatus")
    /\ \/ /\ pfailed' = pfailed \cup { "reconcileClusterStatus" }
          /\ PassReturn(0, TRUE)
          /\ UNCHANGED << pstored, pobj >>
       \/ /\ pobj' = StampStatus(pobj)
          /\ pstored' = StatusPatched(pstored, pobj')
          /\ ppc' = "versions"
          /\ UNCHANGED << pfailed, presult >>
    /\ UNCHANGED << pres, outsidePass >>

\* The test of the control-plane version.
PassCheckVersions ==
    /\ ppc = "versions"
    /\ IF ReadyForReconciling(pobj)
       THEN ppc' = "admission" /\ UNCHANGED presult
       ELSE PassReturn(0, FALSE)
    /\ UNCHANGED << pstored, pobj, psteps, pfailed, pres, outsidePass >>

\* The concurrency check inside the wrapper.  What the check answered is
\* kept: "ceiling" when the cluster is not available for reconciling,
\* "ClusterAvailableForReconciling" when the check itself failed.
PassAdmission ==
    /\ ppc = "admission"
    /\ \E available \in BOOLEAN, err \in BOOLEAN :
          /\ pfailed' = pfailed
                \cup (IF available THEN { } ELSE { "ceiling" })
                \cup (IF err THEN { "ClusterAvailableForReconciling" } ELSE { })
          /\ IF AdmissionPasses(available, err)
             THEN ppc' = "health" /\ UNCHANGED presult
             ELSE WrapperReturn(RequeueAfterSeconds, err)
    /\ UNCHANGED << pstored, pobj, psteps, pres, outsidePass >>

\* r.syncHealth, then the test of the deletion timestamp.
PassSyncHealth ==
    /\ ppc = "health"
    /\ psteps' = Append(psteps, "syncHealth")
    /\ \/ /\ pfailed' = pfailed \cup { "syncHealth" }
          /\ WrapperReturn(0, TRUE)
       \/ /\ ppc' = BranchAfterHealth(pobj)
          /\ UNCHANGED << pfailed, presult >>
    /\ UNCHANGED << pstored, pobj, pres, outsidePass >>

\* The deletion branch: CleanupCluster and the fixed result.
PassCleanupCluster ==
    /\ ppc = "cleanup"
    /\ psteps' = Append(psteps, "CleanupCluster")
    /\ \E err \in BOOLEAN :
          /\ pfailed' = IF err THEN pfailed \cup { "CleanupCluster" } ELSE pfailed
          /\ WrapperReturn(CleanupResult(err), err)
    /\ UNCHANGED << pstored, pobj, pres, outsidePass >>

\* r.reconcileCluster
PassReconcileCluster ==
    /\ ppc = "reconcile"
    /\ psteps' = Append(psteps, "reconcileCluster")
    /\ \/ /\ pfailed' = pfailed \cup { "reconcileCluster" }
          /\ ppc' = "record"
          /\ UNCHANGED pres
       \/ /\ pres' \in InnerRequeues
          /\ ppc' = "clear"
          /\ UNCHANGED pfailed
    /\ UNCHANGED << pstored, pobj, presult, outsidePass >>

\* r.updateClusterError after reconcileCluster failed
PassUpdateClusterError ==
    /\ ppc = "record"
    /\ psteps' = Append(psteps, "updateClusterError")
    /\ \/ /\ pfailed' = pfailed \cup { "updateClusterError" }
          /\ UNCHANGED << pstored, pobj >>
       \/ /\ pobj' = RecordedError(pobj, "ReconcileClusterError", "reconcileCluster failed")
          /\ pstored' = StatusPatched(pstored, pobj')
          /\ UNCHANGED pfailed
    /\ WrapperReturn(0, TRUE)
    /\ UNCHANGED << pres, outsidePass >>

\* r.clearClusterError after reconcileCluster succeeded
PassClearClusterError ==
    /\ ppc = "clear"
    /\ psteps' = Append(psteps, "clearClusterError")
    /\ \/ /\ pfailed' = pfailed \cup { "clearClusterError" }
          /\ WrapperReturn(0, TRUE)
          /\ UNCHANGED << pstored, pobj >>
       \/ /\ pobj' = ClearedError(pobj)
          /\ pstored' = StatusPatched(pstored, pobj')
          /\ WrapperReturn(pres, FALSE)
          /\ UNCHANGED pfailed
    /\ UNCHANGED << pres, outsidePass >>

\* Between two invocations the update controller sets the control-plane
\* version, or the cluster is deleted.
PassClusterChanged ==
    /\ ppc = "idle"
    /\ \/ pstored.ControlPlane = "" /\ pstored' = [ pstored EXCEPT !.ControlPlane = "1.27" ]
       \/ ~pstored.Deleting /\ pstored' = [ pstored EXCEPT !.Deleting = TRUE ]
    /\ UNCHANGED << pobj, ppc, psteps, pfailed, pres, presult, outsidePass >>

PassNext ==
    \/ PassGet
    \/ PassReconcileClusterStatus
    \/ PassCheckVersions
    \/ PassAdmission
    \/ PassSyncHealth
    \/ PassCleanupCluster
    \/ PassReconcileCluster
    \/ PassUpdateClusterError
    \/ PassClearClusterError
    \/ PassClusterChanged

PassSpec == PassInit /\ [][PassNext]_vars

\* ------------------------------- Reconciler.updateCluster and the updater
\* The parts of a Cluster a merge patch can carry.  The finalizer list is one
\* of them: a JSON merge patch replaces a list as a whole.
ClusterFields == { "Spec", "Other", "Finalizers", "Status" }

\* The modify functions handed to a mutation.
Modifications ==
    { "nothing", "setSpec", "setStatus", "setSpecAndStatus",
      "addFinalizer", "removeFinalizer" }

\* What a modify function does to the object it is given.
Modified(m, c) ==
    CASE m = "nothing" -> c
      [] m = "setSpec" -> [ c EXCEPT !.Spec = "new" ]
      [] m = "setStatus" -> [ c EXCEPT !.Status = "s1" ]
      [] m = "setSpecAndStatus" -> [ c EXCEPT !.Spec = "new", !.Status = "s1" ]
      [] m = "addFinalizer" -> [ c EXCEPT !.Finalizers = @ \cup { "mine" } ]
      [] m = "removeFinalizer" -> [ c EXCEPT !.Finalizers = @ \ { "mine" } ]

\* Faulty variant: a change of status is let through.
StatusChanged_Never(old, new) ==
    FALSE

\* `!reflect.DeepEqual(oldCluster.Status, cluster.Status)`
StatusChanged(old, new) ==
    old.Status # new.Status

\* ctrlruntimeclient.MergeFrom(old): the patch holds the fields in which the
\* modified object differs from the original.
MergePatch(old, new) ==
    { f \in ClusterFields : old[f] # new[f] }

\* Faulty variant: the whole object is written over what is stored.
Patched_Overwrite(stored, new, patch) ==
    new

\* The object the seed API stores after it applied the patch.
Patched(stored, new, patch) ==
    [ f \in ClusterFields |-> IF f \in patch THEN new[f] ELSE stored[f] ]

\* The optimistic lock rejects a patch whose original is out of date.
Conflict(lock, stale) ==
    lock /\ stale

PatchInit ==
    /\ ustored \in [ Spec : { "old", "new" }, Other : { "a" },
                     Finalizers : SUBSET { "mine", "theirs" }, Status : { "s0", "s1" } ]
    /\ uold = ustored
    /\ ukind = "none" /\ umodify = "none" /\ ulock = FALSE
    /\ ustale = FALSE /\ uforeign = {} /\ upc = "idle"
    /\ upatches = << >> /\ uerr = "none"
    /\ DeletionUnused /\ ReconcileUnused /\ InfraUnused /\ VAppUnused /\ ValidateUnused /\ ICMPUnused /\ PassUnused /\ HelperUnused /\ AddonUnused /\ FeatureUnused /\ CNIUnused /\ ProjectUnused

\* The controller reads the cluster and is about to call updateCluster on it
\* with some modify function and options.
ReadForUpdateCluster ==
    /\ upc = "idle"
    /\ uold' = ustored
    /\ ukind' = "updateCluster"
    /\ umodify' \in Modifications
    /\ ulock' \in BOOLEAN
    /\ ustale' = FALSE /\ uforeign' = {}
    /\ upc' = "read"
    /\ uerr' = "none" /\ upatches' = << >>
    /\ UNCHANGED << ustored, outsidePatch >>

\* The updater is called by CleanUpCloudProvider to take a finalizer off: it
\* reads the cluster by name and patches with optimistic concurrency.
ReadForUpdater ==
    /\ upc = "idle"
    /\ uold' = ustored
    /\ ukind' = "updater"
    /\ umodify' = "removeFinalizer"
    /\ ulock' = TRUE
    /\ ustale' = FALSE /\ uforeign' = {}
    /\ upc' = "read"
    /\ uerr' = "none" /\ upatches' = << >>
    /\ UNCHANGED << ustored, outsidePatch >>

\* Another controller changes a field of its own or its finalizer.
OtherControllerWrites ==
    /\ \/ /\ ustored.Other = "a"
          /\ ustored' = [ ustored EXCEPT !.Other = "b" ]
          /\ uforeign' = IF upc = "read" THEN uforeign \cup { "Other" } ELSE uforeign
       \/ /\ ustored' = [ ustored EXCEPT !.Finalizers =
                              IF "theirs" \in @ THEN @ \ { "theirs" } ELSE @ \cup { "theirs" } ]
          /\ uforeign' = IF upc = "read" THEN uforeign \cup { "Finalizers" } ELSE uforeign
    /\ ustale' = (upc = "read")
    /\ UNCHANGED << uold, ukind, umodify, ulock, upc, upatches, uerr, outsidePatch >>

\* updateCluster from the copy of the original to its return; the updater's
\* patch goes the same way.
UpdateCluster ==
    /\ upc = "read"
    /\ upc' = "idle"
    /\ LET new == Modified(umodify, uold)
           patch == MergePatch(uold, new)
       IN  IF new = uold
           THEN /\ uerr' = "nil"
                /\ UNCHANGED << ustored, upatches >>
           ELSE IF ukind = "updateCluster" /\ StatusChanged(uold, new)
           THEN /\ uerr' = "err"
                /\ UNCHANGED << ustored, upatches >>
           ELSE /\ upatches' = << patch >>
                /\ \/ /\ uerr' = "err"
                      /\ UNCHANGED ustored
                   \/ /\ ~Conflict(ulock, ustale)
                      /\ uerr' = "nil"
                      /\ ustored' = Patched(ustored, new, patch)
    /\ UNCHANGED << uold, ukind, umodify, ulock, ustale, uforeign, outsidePatch >>

PatchNext ==
    \/ ReadForUpdateCluster
    \/ ReadForUpdater
    \/ OtherControllerWrites
    \/ UpdateCluster

PatchSpec == PatchInit /\ [][PatchNext]_vars

\* ------------------------------------- generated Reconcile<Kind>s function
NoObject == << >>

\* How many invocations are followed.
MaxRuns == 2

\* `&Kind{}`: the zero-valued object.
ZeroObject ==
    [ name |-> "", namespace |-> "", owned |-> "", other |-> "", owner |-> "", rv |-> 0 ]

\* A creator such as csiRoleCreator: it sets the fields it owns on the object
\* it is given and returns it.
Create(creator, obj) ==
    [ obj EXCEPT !.owned = creator ]

\* Faulty variant: the creator is always given a zero-valued object.
ObjectWrapper_IgnoresExisting(creator, existing) ==
    Create(creator, ZeroObject)

\* <Kind>ObjectWrapper: the creator gets the existing object, or a zero-valued
\* one when there is none.
ObjectWrapper(creator, existing) ==
    IF existing # NoObject THEN Create(creator, existing) ELSE Create(creator, ZeroObject)

\* createWithNamespace, createWithName and the object modifiers, wrapped
\* around the creator in this order.
CreateObject(creator, namespace, name, modifier, existing) ==
    LET made == ObjectWrapper(creator, existing)
        placed == [ made EXCEPT !.namespace = namespace, !.name = name ]
    IN  IF modifier THEN [ placed EXCEPT !.owner = "cluster" ] ELSE placed

\* The writes EnsureNamedObject issues for the object it found and the object
\* it wants.
WritesFor(existing, wanted, recreate) ==
    IF existing = NoObject THEN << "create" >>
    ELSE IF wanted = existing THEN << >>
    ELSE IF recreate THEN << "delete", "create" >>
    ELSE << "update" >>

\* What the API stores after these writes: a new resourceVersion on every
\* object written.
Written(existing, wanted, writes) ==
    IF writes = << >> THEN existing
    ELSE IF writes = << "update" >> THEN [ wanted EXCEPT !.rv = existing.rv + 1 ]
    ELSE [ wanted EXCEPT !.rv = 1 ]

HelperInit ==
    /\ hobj \in { NoObject } \cup
                [ name : { "csi" }, namespace : { "ns" }, owned : { "", "r1", "r2" },
                  other : { "", "x" }, owner : { "", "cluster" }, rv : { 1 } ]
    /\ hcreator \in { "r1", "r2" }
    /\ hrecreate \in BOOLEAN
    /\ hmodifier \in BOOLEAN
    /\ hruns = 0 /\ hwrites = << >> /\ htouched = FALSE /\ herr = "none"
    /\ DeletionUnused /\ ReconcileUnused /\ InfraUnused /\ VAppUnused /\ ValidateUnused /\ ICMPUnused /\ PassUnused /\ PatchUnused /\ AddonUnused /\ FeatureUnused /\ CNIUnused /\ ProjectUnused

\* One call of Reconcile<Kind>s with the one named creator.
ReconcileObjects ==
    /\ hruns < MaxRuns
    /\ hruns' = hruns + 1
    /\ htouched' = FALSE
    /\ LET wanted == CreateObject(hcreator, "ns", "csi", hmodifier, hobj)
           writes == WritesFor(hobj, wanted, hrecreate)
       IN  \/ \* the fetch fails
              /\ herr' = "err"
              /\ hwrites' = Append(hwrites, << >>)
              /\ UNCHANGED hobj
           \/ \* a write fails
              /\ writes # << >>
              /\ herr' = "err"
              /\ hwrites' = Append(hwrites, << writes[1] >>)
              /\ UNCHANGED hobj
           \/ /\ herr' = "nil"
              /\ hwrites' = Append(hwrites, writes)
              /\ hobj' = Written(hobj, wanted, writes)
    /\ UNCHANGED << hcreator, hrecreate, hmodifier, outsideHelper >>

\* Someone else changes a field of the object between two invocations.
ObjectEdited ==
    /\ hobj # NoObject
    /\ ~htouched
    /\ hruns < MaxRuns
    /\ \/ hobj' = [ hobj EXCEPT !.owned = "", !.rv = @ + 1 ]
       \/ hobj' = [ hobj EXCEPT !.other = IF @ = "" THEN "x" ELSE "", !.rv = @ + 1 ]
    /\ htouched' = TRUE
    /\ UNCHANGED << hcreator, hrecreate, hmodifier, hruns, hwrites, herr, outsideHelper >>

HelperNext ==
    \/ ReconcileObjects
    \/ ObjectEdited

HelperSpec == HelperInit /\ [][HelperNext]_vars

\* ------------------------------------------- the addon reconciler: Reconcile
\* One addon of one user cluster. The addon carries what the reconciler reads:
\* the deletion timestamp, the cleanup finalizer, the ResourcesCreated
\* condition, the ensure label and whether it names required resource types.
\* A step of an invocation is "render" (setupManifestInteraction), "delete",
\* "apply", "removeFinalizer", "setFinalizer" or "setCondition"; the steps
\* that failed are kept beside the list.
Addons ==
    [ Deleting : BOOLEAN, Finalizer : BOOLEAN, ResourcesCreated : BOOLEAN,
      EnsureLabel : BOOLEAN, Required : BOOLEAN ]

addonResourcesCreated(addon) == addon.ResourcesCreated

hasEnsureResourcesLabel(addon) == addon.EnsureLabel

\* Faulty variant: the test on the ensure label has lost its negation.
SkipsInstall_NeedsLabel(addon) ==
    addonResourcesCreated(addon) /\ hasEnsureResourcesLabel(addon)

\* The test that ends reconcile before anything is installed.
SkipsInstall(addon) ==
    addonResourcesCreated(addon) /\ ~hasEnsureResourcesLabel(addon)

\* What one call of an addon function did: the steps it took, the steps that
\* failed ("nodir" is the tolerated failure of the render),
\* the requeue it asks for, whether it returns an error, the addon it leaves.
Did(steps, failed, requeue, err, addon) ==
    [ steps |-> steps, failed |-> failed, requeue |-> requeue, err |-> err,
      addon |-> addon ]

\* Faulty variant: a failed delete command is logged and not returned.
cleanupManifests_IgnoresDeleteError(dir) ==
    { [ steps |-> << "render" >>, failed |-> { "render" }, err |-> TRUE ] }
    \cup (IF dir
          THEN { [ steps |-> << "render", "delete" >>, failed |-> { "delete" }, err |-> FALSE ],
                 [ steps |-> << "render", "delete" >>, failed |-> { }, err |-> FALSE ] }
          ELSE { [ steps |-> << "render" >>, failed |-> { "nodir" }, err |-> FALSE ] })

\* cleanupManifests: the manifests are rendered and written; a failure whose
\* text says "no such file or directory" (the manifest directory is gone) is
\* tolerated, any other is returned; then kubectl delete runs and its failure
\* is returned.
cleanupManifests(dir) ==
    { [ steps |-> << "render" >>, failed |-> { "render" }, err |-> TRUE ] }
    \cup (IF dir
          THEN { [ steps |-> << "render", "delete" >>, failed |-> { "delete" }, err |-> TRUE ],
                 [ steps |-> << "render", "delete" >>, failed |-> { }, err |-> FALSE ] }
          ELSE { [ steps |-> << "render" >>, failed |-> { "nodir" }, err |-> FALSE ] })

\* removeCleanupFinalizer after the given steps: TryRemoveFinalizer succeeds
\* or fails.
removeCleanupFinalizer(steps, failed, requeue, addon) ==
    { Did(Append(steps, "removeFinalizer"), failed \cup { "removeFinalizer" }, requeue,
          TRUE, addon),
      Did(Append(steps, "removeFinalizer"), failed, requeue, FALSE,
          [ addon EXCEPT !.Finalizer = FALSE ]) }

\* The deletion branch of reconcile.
CleanedUp(addon, dir) ==
    UNION { IF c.err
            THEN { Did(c.steps, c.failed, "nil", TRUE, addon) }
            ELSE removeCleanupFinalizer(c.steps, c.failed, "nil", addon)
          : c \in cleanupManifests(dir) }

\* ensureResourcesCreatedConditionIsSet after the given steps: nothing is
\* written when the condition is already True.
ensureResourcesCreatedConditionIsSet(steps, addon) ==
    IF addon.ResourcesCreated
    THEN { Did(steps, { }, "nil", FALSE, addon) }
    ELSE { Did(Append(steps, "setCondition"), { "setCondition" }, "nil", TRUE, addon),
           Did(Append(steps, "setCondition"), { }, "nil", FALSE,
               [ addon EXCEPT !.ResourcesCreated = TRUE ]) }

\* ensureFinalizerIsSet after the given steps, followed by the condition.
ensureFinalizerIsSet(steps, addon) ==
    { Did(Append(steps, "setFinalizer"), { "setFinalizer" }, "nil", TRUE, addon) }
    \cup ensureResourcesCreatedConditionIsSet(Append(steps, "setFinalizer"),
                                              [ addon EXCEPT !.Finalizer = TRUE ])

\* The installing branch of reconcile: ensureIsInstalled (the render fails
\* without the manifest directory; an empty manifest is not applied), then
\* the finalizer, then the condition.
Installed(addon, dir, template) ==
    { Did(<< "render" >>, { "render" }, "nil", TRUE, addon) }
    \cup (IF ~dir THEN { }
          ELSE IF template = { } THEN ensureFinalizerIsSet(<< "render" >>, addon)
          ELSE { Did(<< "render", "apply" >>, { "apply" }, "nil", TRUE, addon) }
               \cup ensureFinalizerIsSet(<< "render", "apply" >>, addon))

\* Faulty variant: a type that is not served is a failure like any other.
RequiredTypesMissing_NoMatchFails(addon) ==
    IF addon.Required
    THEN { Did(<< >>, { "list" }, "nil", TRUE, addon),
           Did(<< >>, { "nomatch" }, "nil", TRUE, addon) }
    ELSE { }

\* ensureRequiredResourceTypesExist: the outcomes that end reconcile. A List
\* fails ("list"), or answers that the type is not served ("nomatch").
RequiredTypesMissing(addon) ==
    IF addon.Required
    THEN { Did(<< >>, { "list" }, "nil", TRUE, addon),
           Did(<< >>, { "nomatch" }, "10s", FALSE, addon) }
    ELSE { }

\* Faulty variant: the deletion branch comes before the test of the API
\* server's health and of the required resource types.
reconcile_DeletionFirst(addon, apiserverUp, dir, template) ==
    IF addon.Deleting THEN CleanedUp(addon, dir)
    ELSE IF ~apiserverUp THEN { Did(<< >>, { }, "10s", FALSE, addon) }
    ELSE RequiredTypesMissing(addon)
         \cup (IF SkipsInstall(addon) THEN { Did(<< >>, { }, "nil", FALSE, addon) }
               ELSE Installed(addon, dir, template))

\* reconcile, on a cluster that exists and has a version.
reconcile(addon, apiserverUp, dir, template) ==
    IF ~apiserverUp
    THEN { Did(<< >>, { }, "10s", FALSE, addon) }
    ELSE RequiredTypesMissing(addon)
         \cup (IF addon.Deleting THEN CleanedUp(addon, dir)
               ELSE IF SkipsInstall(addon) THEN { Did(<< >>, { }, "nil", FALSE, addon) }
               ELSE Installed(addon, dir, template))

\* The result Reconcile makes of a nil result of reconcile.
Requeue(inner, enforce) ==
    IF inner = "nil" THEN (IF enforce THEN "enforce" ELSE "none") ELSE inner

\* The addon name, which is the value of the addon label.
AddonName == "a1"

\* The objects a template can render.
ObjectNames == { "cm1", "cm2" }

getAddonLabel == AddonName

\* Faulty variant: the rendered objects keep the labels the template gave them.
ensureAddonLabelOnManifests_KeepsLabels(manifests) ==
    { [ name |-> n, label |-> "" ] : n \in manifests }

\* ensureAddonLabelOnManifests: every rendered object gets the addon label.
ensureAddonLabelOnManifests(manifests) ==
    { [ name |-> n, label |-> getAddonLabel ] : n \in manifests }

\* kubectl apply --prune --filename manifest --selector label: the objects of
\* the manifest are created or replaced, and the objects with the label that
\* the manifest does not name are deleted.
ApplyPrune(objects, manifest, selector) ==
    { o \in objects : /\ o.name \notin { m.name : m \in manifest }
                      /\ o.label # selector }
    \cup manifest

\* kubectl delete -f manifest --ignore-not-found: the objects the manifest
\* names are deleted.
DeleteManifest(objects, manifest) ==
    { o \in objects : o.name \notin { m.name : m \in manifest } }

\* The tenant cluster after the steps d describes.
TenantAfter(d, objects, template) ==
    IF "apply" \in { d.steps[i] : i \in DOMAIN d.steps } /\ "apply" \notin d.failed
    THEN ApplyPrune(objects, ensureAddonLabelOnManifests(template), getAddonLabel)
    ELSE IF "delete" \in { d.steps[i] : i \in DOMAIN d.steps } /\ "delete" \notin d.failed
    THEN DeleteManifest(objects, ensureAddonLabelOnManifests(template))
    ELSE objects

\* The tenant cluster holds no object of the addon yet; it may hold an object
\* that is not the addon's.
AddonInit ==
    /\ adaddon \in Addons
    /\ adcluster \in { "gone", "noversion", "apidown", "up" }
    /\ addir \in BOOLEAN
    /\ adenforce \in BOOLEAN
    /\ adsteps = << >> /\ adfailed = { } /\ adresult = << >>
    /\ adtemplate \in SUBSET ObjectNames
    /\ adobjects \in SUBSET { [ name |-> "other", label |-> "" ] }
    /\ adpruned = { }
    /\ DeletionUnused /\ ReconcileUnused /\ InfraUnused /\ VAppUnused /\ ValidateUnused /\ ICMPUnused /\ PassUnused /\ PatchUnused /\ HelperUnused /\ FeatureUnused /\ CNIUnused /\ ProjectUnused

\* Reconcile leaves what d describes.
AddonReturn(d) ==
    /\ adaddon' = d.addon
    /\ adsteps' = d.steps
    /\ adfailed' = d.failed
    /\ adresult' = [ requeue |-> d.requeue, err |-> d.err ]
    /\ adobjects' = TenantAfter(d, adobjects, adtemplate)
    /\ adpruned' = { o.name : o \in adobjects } \ { o.name : o \in adobjects' }
    /\ UNCHANGED << adcluster, addir, adenforce, adtemplate, outsideAddon >>

\* Reconcile fails to read the addon or the cluster.
AddonGetFails ==
    /\ adaddon \in Addons
    /\ AddonReturn(Did(<< >>, { "get" }, "none", TRUE, adaddon))

\* Reconcile finds the cluster gone: the cleanup finalizer is removed, as the
\* manifests cannot be deleted from the cluster any more.
AddonClusterGone ==
    /\ adcluster = "gone"
    /\ \E d \in removeCleanupFinalizer(<< >>, { }, "none", adaddon) : AddonReturn(d)

\* Reconcile finds the cluster without a version status.
AddonClusterHasNoVersion ==
    /\ adcluster = "noversion"
    /\ AddonReturn(Did(<< >>, { }, "none", FALSE, adaddon))

\* Reconcile runs reconcile inside the cluster reconcile wrapper.
AddonReconcile ==
    /\ adcluster \in { "apidown", "up" }
    /\ \E d \in reconcile(adaddon, adcluster = "up", addir, adtemplate) :
          AddonReturn([ d EXCEPT !.requeue = Requeue(d.requeue, adenforce) ])

\* Someone deletes the addon, sets or removes the ensure label, the cluster
\* gets its version, its API server comes up or goes down, the cluster goes
\* away and its objects with it, the manifest directory is removed.
AddonChanged ==
    /\ \/ /\ adaddon.Finalizer
          /\ adaddon' = [ adaddon EXCEPT !.Deleting = TRUE ]
          /\ UNCHANGED << adcluster, addir >>
       \/ /\ adaddon' = [ adaddon EXCEPT !.EnsureLabel = ~adaddon.EnsureLabel ]
          /\ UNCHANGED << adcluster, addir >>
       \/ /\ adcluster # "gone"
          /\ adcluster' \in { "gone", "apidown", "up" } \ { adcluster }
          /\ UNCHANGED << adaddon, addir >>
       \/ /\ addir /\ addir' = FALSE
          /\ UNCHANGED << adaddon, adcluster >>
    /\ adobjects' = IF adcluster' = "gone" THEN { } ELSE adobjects
    /\ UNCHANGED << adenforce, adsteps, adfailed, adresult, adtemplate, adpruned,
                    outsideAddon >>

\* The addon's template is changed: it renders other objects from now on.
AddonTemplateChanged ==
    /\ adtemplate' \in (SUBSET ObjectNames) \ { adtemplate }
    /\ UNCHANGED << adaddon, adcluster, addir, adenforce, adsteps, adfailed, adresult,
                    adobjects, adpruned, outsideAddon >>

AddonNext ==
    \/ AddonGetFails
    \/ AddonClusterGone
    \/ AddonClusterHasNoVersion
    \/ AddonReconcile
    \/ AddonChanged
    \/ AddonTemplateChanged

AddonSpec == AddonInit /\ [][AddonNext]_vars

\* ------------------------- ValidateClusterUpdate: feature flags, encryption
\* A feature flag in Spec.Features is absent, false or true.  The cluster
\* carries, beside the three flags, Spec.EncryptionConfiguration (nil, or with
\* Enabled false or true, and its list of resources) and the encryption phase
\* of its status ("nil" when Status.Encryption is nil).
FlagValues == { "absent", "false", "true" }

ClusterFeatureExternalCloudProvider == "externalCloudProvider"

ClusterFeatureEtcdLauncher == "etcdLauncher"

ClusterFeatureEncryptionAtRest == "encryptionAtRest"

OneWayFlags == { ClusterFeatureExternalCloudProvider, ClusterFeatureEtcdLauncher }

FeatureClusters ==
    [ Features : [ OneWayFlags \cup { ClusterFeatureEncryptionAtRest } -> FlagValues ],
      Config : { "nil", "disabled", "enabled" },
      Resources : { "secrets", "configmaps" },
      Phase : { "nil", "", "Pending", "Active" } ]

\* `v := m[key]` and `v, ok := m[key]` on the feature map.
FlagEnabled(c, flag) == c.Features[flag] = "true"

FlagPresent(c, flag) == c.Features[flag] # "absent"

\* Cluster.IsEncryptionEnabled: encryption is configured and enabled.
IsEncryptionEnabled(c) == c.Config = "enabled"

\* Cluster.IsEncryptionActive: the status says encryption is active.
IsEncryptionActive(c) == c.Phase = "Active"

\* Faulty variant: a flag may be switched off when it is still present.
FlagDisabled_OnlyWhenRemoved(old, new, flag) ==
    FlagEnabled(old, flag) /\ ~FlagPresent(new, flag)

\* `vOld && !v`: the flag was enabled and is not enabled any more.
FlagDisabled(old, new, flag) ==
    FlagEnabled(old, flag) /\ ~FlagEnabled(new, flag)

\* validateEncryptionConfiguration, as far as it looks at the feature flag.
validateEncryptionConfiguration(spec) ==
    IF spec.Config = "enabled" /\ ~FlagEnabled(spec, ClusterFeatureEncryptionAtRest)
    THEN { "encryptionConfiguration.enabled" }
    ELSE { }

\* validateEncryptionUpdate, with the parameters in the order of its
\* signature.
validateEncryptionUpdate(oldCluster, newCluster) ==
    (IF /\ FlagEnabled(oldCluster, ClusterFeatureEncryptionAtRest)
        /\ oldCluster.Phase # "nil"
     THEN (IF /\ oldCluster.Phase \notin { "", "Active" }
              /\ << oldCluster.Config, oldCluster.Resources >>
                   # << newCluster.Config, newCluster.Resources >>
           THEN { "encryptionConfiguration" } ELSE { })
          \cup
          (IF /\ oldCluster.Config = "enabled" /\ newCluster.Config = "enabled"
              /\ oldCluster.Resources # newCluster.Resources
           THEN { "encryptionConfiguration.resources" } ELSE { })
     ELSE { })
    \cup
    (IF /\ ~FlagEnabled(newCluster, ClusterFeatureEncryptionAtRest)
        /\ (IsEncryptionEnabled(newCluster) \/ IsEncryptionActive(newCluster))
     THEN { "features" } ELSE { })

\* ValidateClusterUpdate, the checks on the feature flags and on encryption:
\* the errors it returns.  validateEncryptionUpdate is called with the new
\* cluster first and the old cluster second.
ValidateClusterUpdate(newCluster, oldCluster) ==
    validateEncryptionConfiguration(newCluster)
    \cup { flag \in OneWayFlags : FlagDisabled(oldCluster, newCluster, flag) }
    \cup validateEncryptionUpdate(newCluster, oldCluster)

\* Spec.EncryptionConfiguration nil has no list of resources.
WellFormed(c) == c.Config = "nil" => c.Resources = "secrets"

FeatureInit ==
    /\ fold \in { c \in FeatureClusters : WellFormed(c) /\ c.Phase \in { "nil", "" } }
    /\ fnew = << >> /\ ferrs = { }
    /\ fever = { flag \in OneWayFlags : FlagEnabled(fold, flag) }
    /\ DeletionUnused /\ ReconcileUnused /\ InfraUnused /\ VAppUnused /\ ValidateUnused /\ ICMPUnused /\ PassUnused /\ PatchUnused /\ HelperUnused /\ AddonUnused /\ CNIUnused /\ ProjectUnused

\* The flags and encryption settings in which two clusters differ.
ChangedAttributes(old, new) ==
    { flag \in DOMAIN old.Features : old.Features[flag] # new.Features[flag] }
    \cup (IF old.Config # new.Config THEN { "Config" } ELSE { })
    \cup (IF old.Resources # new.Resources THEN { "Resources" } ELSE { })

\* An update request changes the spec, in at most MaxChangedFields places;
\* the status is not part of it.  The request is stored when
\* ValidateClusterUpdate returns no error.
ClusterUpdateRequested ==
    /\ \E new \in FeatureClusters :
          /\ WellFormed(new) /\ new.Phase = fold.Phase
          /\ Cardinality(ChangedAttributes(fold, new)) <= MaxChangedFields
          /\ fnew' = new
          /\ ferrs' = ValidateClusterUpdate(new, fold)
          /\ fold' = IF ferrs' = { } THEN new ELSE fold
    /\ fever' = fever \cup { flag \in OneWayFlags : FlagEnabled(fold', flag) }
    /\ UNCHANGED outsideFeature

\* The encryption controller moves the phase on.
EncryptionPhaseChanged ==
    /\ FlagEnabled(fold, ClusterFeatureEncryptionAtRest)
    /\ fold' \in { [ fold EXCEPT !.Phase = p ] : p \in { "", "Pending", "Active" } \ { fold.Phase } }
    /\ UNCHANGED << fnew, ferrs, fever, outsideFeature >>

FeatureNext ==
    \/ ClusterUpdateRequested
    \/ EncryptionPhaseChanged

FeatureSpec == FeatureInit /\ [][FeatureNext]_vars

\* --------------------------------------------------------- validateCNIUpdate
\* A CNI plugin version is what semver makes of it: major, minor and patch,
\* or BadVersion when it does not parse.  Whether the old plugin type and version
\* are supported is an answer of the cni package, carried with the old
\* settings.
MaxMinor == 3

NoCNI == << >>

UnsafeCNIUpgradeLabel == "unsafe-cni-upgrade"

UnsafeCNIMigrationLabel == "unsafe-cni-migration"

BadVersion == [ major |-> 0, minor |-> 0, patch |-> 0, parses |-> FALSE ]

CNIVersions ==
    [ major : { 1, 2 }, minor : 0..MaxMinor, patch : { 0, 1 }, parses : { TRUE } ]
    \cup { BadVersion }

CNITypes == { "canal", "cilium" }

\* semverlib.NewVersion fails.
ParseFails(version) == ~version.parses

\* `newV.Major() != oldV.Major() || (newV.Minor() != oldV.Minor()+1 &&
\* oldV.Minor() != newV.Minor()+1)`
VersionJumpForbidden(newV, oldV) ==
    \/ newV.major # oldV.major
    \/ /\ newV.minor # oldV.minor + 1
       /\ oldV.minor # newV.minor + 1

\* validateCNIUpdate: "nil", or the kind of error it returns.
validateCNIUpdate(newCni, oldCni, labels) ==
    IF newCni = NoCNI /\ oldCni = NoCNI THEN "nil"
    ELSE IF oldCni # NoCNI /\ newCni = NoCNI THEN "Required"
    ELSE IF oldCni = NoCNI /\ newCni # NoCNI THEN "nil"
    ELSE IF newCni.Type # oldCni.Type
    THEN (IF UnsafeCNIMigrationLabel \in labels THEN "nil" ELSE "ForbiddenType")
    ELSE IF newCni.Version # oldCni.Version
    THEN (IF ~oldCni.Supported THEN "nil"
          ELSE IF ParseFails(newCni.Version) THEN "InvalidNew"
          ELSE IF ParseFails(oldCni.Version) THEN "InvalidOld"
          ELSE IF /\ VersionJumpForbidden(newCni.Version, oldCni.Version)
                  /\ UnsafeCNIUpgradeLabel \notin labels
          THEN "ForbiddenVersion"
          ELSE "nil")
    ELSE "nil"

CNIInit ==
    /\ noldCni \in { NoCNI } \cup
                   [ Type : CNITypes, Version : CNIVersions, Supported : BOOLEAN ]
    /\ nnewCni \in { NoCNI } \cup [ Type : CNITypes, Version : CNIVersions ]
    /\ nlabels \in SUBSET { UnsafeCNIUpgradeLabel, UnsafeCNIMigrationLabel }
    /\ nerr = "unset"
    /\ DeletionUnused /\ ReconcileUnused /\ InfraUnused /\ VAppUnused /\ ValidateUnused /\ ICMPUnused /\ PassUnused /\ PatchUnused /\ HelperUnused /\ AddonUnused /\ FeatureUnused /\ ProjectUnused

\* ValidateClusterUpdate calls validateCNIUpdate with the new cluster's labels.
ValidateCNI ==
    /\ nerr = "unset"
    /\ nerr' = validateCNIUpdate(nnewCni, noldCni, nlabels)
    /\ UNCHANGED << noldCni, nnewCni, nlabels, outsideCNI >>

CNINext ==
    \/ ValidateCNI

CNISpec == CNIInit /\ [][CNINext]_vars

\* ------------------------------------------ projectController.sync (RBAC)
\* One project and the two kinds of binding the controller keeps for the
\* project's resources: a ClusterRoleBinding ("crb") and a RoleBinding ("rb").
\* A binding is its list of subjects; the generated binding has the one
\* subject of the project's group.
Bindings == << "crb", "rb" >>

NoBinding == << "absent" >>

GeneratedSubjects == << "group-p1" >>

OtherSubjects == { "group-p2", "sa" }

RangeOf(seq) == { seq[i] : i \in DOMAIN seq }

\* `subjectsToAdd`: the generated subjects the existing binding lacks.
SubjectsToAdd(existing, generated) ==
    SelectSeq(generated, LAMBDA s : s \notin RangeOf(existing))

\* Faulty variant: the existing subjects are replaced by the generated ones.
Appended_Replaces(existing, generated) ==
    generated

\* `append(existing.Subjects, subjectsToAdd...)`
Appended(existing, generated) ==
    existing \o SubjectsToAdd(existing, generated)

\* `updatedListOfSubjectes`: the existing subjects that are not generated.
SubjectsKept(existing, generated) ==
    SelectSeq(existing, LAMBDA s : s \notin RangeOf(generated))

\* What one call on a binding did: the binding it leaves, the write calls it
\* issued, the call that failed if any, whether the Get answered NotFound.
Outcome(binding, writes, failed, notfound) ==
    [ binding |-> binding, writes |-> writes, failed |-> failed, notfound |-> notfound ]

\* ensureClusterRBACRoleBindingForResource and ensureRBACRoleBindingForResource
EnsureBinding(existing) ==
    { Outcome(existing, 0, { "get" }, FALSE) }
    \cup IF existing = NoBinding
         THEN { Outcome(GeneratedSubjects, 1, { }, TRUE),
                Outcome(existing, 1, { "create" }, TRUE) }
         ELSE IF SubjectsToAdd(existing, GeneratedSubjects) = << >>
         THEN { Outcome(existing, 0, { }, FALSE) }
         ELSE { Outcome(Appended(existing, GeneratedSubjects), 1, { }, FALSE),
                Outcome(existing, 1, { "update" }, FALSE) }

\* cleanUpClusterRBACRoleBindingFor and cleanUpRBACRoleBindingFor: the error
\* of the Get is returned, NotFound included.
CleanUpBinding(existing) ==
    { Outcome(existing, 0, { "get" }, FALSE) }
    \cup IF existing = NoBinding
         THEN { Outcome(existing, 0, { }, TRUE) }
         ELSE { Outcome(SubjectsKept(existing, GeneratedSubjects), 1, { }, FALSE),
                Outcome(existing, 1, { "update" }, FALSE) }

\* The call on a binding returned an error.
Failed(o, cleanup) == o.failed # { } \/ (cleanup /\ o.notfound)

\* The calls on the two bindings in turn; the second is not made when the
\* first returned an error.
OnBothBindings(bindings, cleanup) ==
    LET Call(b) == IF cleanup THEN CleanUpBinding(b) ELSE EnsureBinding(b)
        Skipped(b) == Outcome(b, 0, { }, FALSE)
    IN  UNION { { << o1, o2 >> : o2 \in IF Failed(o1, cleanup)
                                       THEN { Skipped(bindings[2]) }
                                       ELSE Call(bindings[2]) }
              : o1 \in Call(bindings[1]) }

ProjectInit ==
    /\ jproject \in { p \in [ Deleting : BOOLEAN, Finalizer : BOOLEAN,
                               Phase : { "", "Inactive", "Active" } ] :
                         p.Deleting => p.Finalizer }
    /\ jbindings \in [ { 1, 2 } -> { NoBinding, << >>, << "group-p2" >>, GeneratedSubjects,
                                     << "sa", "group-p1" >> } ]
    /\ jlast = "none" /\ jwrites = << 0, 0 >>
    /\ jfailed = { } /\ jnotfound = { } /\ jquiet = FALSE /\ jerr = "none"
    /\ DeletionUnused /\ ReconcileUnused /\ InfraUnused /\ VAppUnused /\ ValidateUnused /\ ICMPUnused /\ PassUnused /\ PatchUnused /\ HelperUnused /\ AddonUnused /\ FeatureUnused /\ CNIUnused

\* The invocation leaves the two bindings as the calls o left them.
BindingsAfter(o) ==
    /\ jbindings' = << o[1].binding, o[2].binding >>
    /\ jwrites' = << o[1].writes, o[2].writes >>
    /\ jnotfound' = { Bindings[i] : i \in { k \in { 1, 2 } : o[k].notfound } }

\* sync on a project without deletion timestamp: the initial phase, the
\* finalizer, the bindings, the phase Active.
ProjectEnsure ==
    /\ ~jproject.Deleting
    /\ jlast' = "ensure" /\ jquiet' = TRUE
    /\ LET started == IF jproject.Phase = ""
                      THEN [ jproject EXCEPT !.Phase = "Inactive" ] ELSE jproject
           withFinalizer == [ started EXCEPT !.Finalizer = TRUE ]
       IN  \/ /\ jproject.Phase = ""
              /\ jfailed' = { "phase" } /\ jerr' = "err"
              /\ jwrites' = << 0, 0 >> /\ jnotfound' = { }
              /\ UNCHANGED << jproject, jbindings >>
           \/ /\ jfailed' = { "finalizer" } /\ jerr' = "err"
              /\ jwrites' = << 0, 0 >> /\ jnotfound' = { }
              /\ jproject' = started
              /\ UNCHANGED jbindings
           \/ \E o \in OnBothBindings(jbindings, FALSE), phaseFails \in BOOLEAN :
                 /\ BindingsAfter(o)
                 /\ LET failed == o[1].failed \cup o[2].failed
                    IN  IF failed # { }
                        THEN /\ jfailed' = failed /\ jerr' = "err"
                             /\ jproject' = withFinalizer
                        ELSE IF phaseFails /\ started.Phase # "Active"
                        THEN /\ jfailed' = { "phase" } /\ jerr' = "err"
                             /\ jproject' = withFinalizer
                        ELSE /\ jfailed' = { } /\ jerr' = "nil"
                             /\ jproject' = [ withFinalizer EXCEPT !.Phase = "Active" ]
    /\ UNCHANGED outsideProject

\* sync on a project with deletion timestamp: ensureProjectCleanup.
ProjectCleanup ==
    /\ jproject.Deleting
    /\ jlast' = "cleanup" /\ jquiet' = TRUE
    /\ \/ /\ jproject.Phase # "Terminating"
          /\ jfailed' = { "phase" } /\ jerr' = "err"
          /\ jwrites' = << 0, 0 >> /\ jnotfound' = { }
          /\ UNCHANGED << jproject, jbindings >>
       \/ \E o \in OnBothBindings(jbindings, TRUE), finalizerFails \in BOOLEAN :
             /\ BindingsAfter(o)
             /\ IF Failed(o[1], TRUE) \/ Failed(o[2], TRUE)
                THEN /\ jfailed' = o[1].failed \cup o[2].failed /\ jerr' = "err"
                     /\ jproject' = [ jproject EXCEPT !.Phase = "Terminating" ]
                ELSE IF finalizerFails
                THEN /\ jfailed' = { "finalizer" } /\ jerr' = "err"
                     /\ jproject' = [ jproject EXCEPT !.Phase = "Terminating" ]
                ELSE /\ jfailed' = { } /\ jerr' = "nil"
                     /\ jproject' = [ jproject EXCEPT !.Phase = "Terminating",
                                                      !.Finalizer = FALSE ]
    /\ UNCHANGED outsideProject

\* From outside: the project is deleted, a binding is deleted, a subject is
\* added to a binding.
ProjectChanged ==
    /\ \/ /\ ~jproject.Deleting /\ jproject.Finalizer
          /\ jproject' = [ jproject EXCEPT !.Deleting = TRUE ]
          /\ UNCHANGED jbindings
       \/ \E i \in { 1, 2 } :
             /\ jbindings[i] # NoBinding
             /\ jbindings' = [ jbindings EXCEPT ![i] = NoBinding ]
             /\ UNCHANGED jproject
       \/ \E i \in { 1, 2 }, s \in OtherSubjects :
             /\ jbindings[i] # NoBinding /\ s \notin RangeOf(jbindings[i])
             /\ jbindings' = [ jbindings EXCEPT ![i] = Append(@, s) ]
             /\ UNCHANGED jproject
    /\ jquiet' = FALSE
    /\ UNCHANGED << jlast, jwrites, jfailed, jnotfound, jerr, outsideProject >>

ProjectNext ==
    \/ ProjectEnsure
    \/ ProjectCleanup
    \/ ProjectChanged

ProjectSpec == ProjectInit /\ [][ProjectNext]_vars

\* ================================================================ claims
CredsFin == CredentialsSecretsCleanupFinalizer
InClusterLBPV == { InClusterLBCleanupFinalizer, InClusterPVCleanupFinalizer }
StagesAfterInCluster ==
    { "cleanupEtcdBackupConfigs", "cleanupNodes", "cleanupClusterRoleBindings",
      "cleanUpCredentialsSecrets" }

\* C1: the credentials cleanup stage is entered, and the credentials finalizer
\* is removed, only when that finalizer is the only one on the cluster: on the
\* object the pass checked and on the seed API at that moment.
C1_CredentialsOnlyWhenSole ==
    [][ /\ (pc' = "cleanUpCredentialsSecrets" /\ pc # pc')
            => (cluster' = {CredsFin} /\ finalizers' = {CredsFin})
        /\ (CredsFin \in finalizers /\ CredsFin \notin finalizers')
            => (pc = "cleanUpCredentialsSecrets" /\ finalizers = {CredsFin}) ]_vars

\* C1 witness: a pass ran the credentials cleanup and removed the last finalizer.
C1_Witness ==
    /\ "cleanUpCredentialsSecrets" \in attempted
    /\ result = "done"
    /\ finalizers = {}

\* C2: while the node-deletion finalizer is on the cluster no cloud cleanup
\* finalizer and no credentials finalizer is removed, and a pass that finds the
\* node-deletion finalizer after the node cleanup stage ends without running
\* the credentials cleanup.
C2_NothingBeyondNodesWhileNodesExist ==
    [][ /\ NodeDeletionFinalizer \in finalizers
            => (finalizers' \cap (AzureFinalizers \cup {CredsFin})
                    = finalizers \cap (AzureFinalizers \cup {CredsFin}))
        /\ (pc = "cleanupClusterRoleBindings" /\ pc' # pc
                /\ NodeDeletionFinalizer \in finalizers')
            => pc' = "idle" ]_vars

\* C2 witness: a pass halted on the node-deletion finalizer with the
\* credentials finalizer and cloud finalizers still in place.
C2_Witness ==
    /\ result = "halt-nodes"
    /\ NodeDeletionFinalizer \in finalizers
    /\ CredsFin \in finalizers
    /\ finalizers \cap AzureFinalizers # {}
    /\ "cleanupNodes" \in attempted

C4_Original ==
    [][ /\ (InClusterLBCleanupFinalizer \in finalizers
                /\ InClusterLBCleanupFinalizer \notin finalizers')
            => (lbServices = 0 /\ lbsPending = 0)
        /\ (InClusterPVCleanupFinalizer \in finalizers
                /\ InClusterPVCleanupFinalizer \notin finalizers')
            => pvs = 0
        /\ (ClusterRoleBindingsCleanupFinalizer \in finalizers
                /\ ClusterRoleBindingsCleanupFinalizer \notin finalizers')
            => crbs = 0 ]_vars

\* C4 amended: the load balancer finalizer and the volume finalizer are removed
\* only when no service is listed, no requested load balancer deletion is
\* unconfirmed, respectively no volume is listed.  (The cluster-role-binding
\* finalizer is removed without looking at the bindings.)
C4_InClusterFinalizersGuardResources ==
    [][ /\ (InClusterLBCleanupFinalizer \in finalizers
                /\ InClusterLBCleanupFinalizer \notin finalizers')
            => (lbServices = 0 /\ lbsPending = 0)
        /\ (InClusterPVCleanupFinalizer \in finalizers
                /\ InClusterPVCleanupFinalizer \notin finalizers')
            => pvs = 0 ]_vars

\* C4 witness: the in-cluster stage removed the finalizers after a pass that
\* deleted nothing, although the cluster had resources to begin with.
C4_Witness ==
    /\ pc = "cleanupEtcdBackupConfigs"
    /\ lbsAreGone = "gone"
    /\ lbDeleting /\ pvDeleting
    /\ lbServices = 0 /\ pvs = 0
    /\ finalizers \cap InClusterLBPV = {}

\* C5: a pass that leaves the in-cluster stage with the LB or the PV finalizer
\* still on the cluster ends there; no later stage runs in it.
C5_HaltAfterInClusterStage ==
    ("cleanupInClusterResources" \in attempted /\ HasAnyFinalizer(finalizers, InClusterLBPV))
        => (pc = "idle" /\ attempted \cap StagesAfterInCluster = {})

\* C5 witness: a pass halted after the in-cluster stage.
C5_Witness ==
    /\ result = "halt-in-cluster"
    /\ attempted = { "cleanupConstraints", "cleanupInClusterResources" }
    /\ HasAnyFinalizer(finalizers, InClusterLBPV)
    /\ EtcdBackupConfigCleanupFinalizer \in finalizers

\* C6: an in-cluster stage that deleted a load balancer or a volume removes no
\* finalizer and ends the pass; the in-cluster finalizers go only in a stage
\* that deleted nothing and whose load balancer check succeeded.
C6_RemoveOnlyAfterQuietPass ==
    [][ /\ (pc = "cleanupInClusterResources" /\ pc' # pc
                /\ \/ (InClusterLBCleanupFinalizer \in cluster /\ lbServices > 0)
                   \/ (InClusterPVCleanupFinalizer \in cluster /\ pvs > 0))
            => (finalizers' = finalizers /\ pc' = "idle")
        /\ (finalizers' \cap InClusterLBPV # finalizers \cap InClusterLBPV)
            => /\ pc = "cleanupInClusterResources"
               /\ ~deletedSomeResource'
               /\ lbsAreGone' = "gone"
               /\ lbsPending = 0 ]_vars

\* C6 witness: a pass deleted something and returned with both finalizers kept.
C6_Witness ==
    /\ result = "halt-in-cluster"
    /\ deletedSomeResource
    /\ lbsAreGone = "unchecked"
    /\ InClusterLBPV \subseteq finalizers

\* C7 as stated: each in-cluster finalizer is removed by a stage that finds its
\* own resource class empty, whatever the state of the other class.
C7_Original ==
    [][ (pc = "cleanupInClusterResources" /\ pc' # pc /\ result' # "err")
            => /\ (InClusterLBCleanupFinalizer \in cluster /\ lbServices = 0 /\ lbsPending = 0)
                    => InClusterLBCleanupFinalizer \notin finalizers'
               /\ (InClusterPVCleanupFinalizer \in cluster /\ pvs = 0)
                    => InClusterPVCleanupFinalizer \notin finalizers' ]_vars

\* C7 amended: the two in-cluster finalizers leave together, in one stage that
\* found nothing to delete in the class of either finalizer present and whose
\* load balancer check succeeded.
C7_InClusterFinalizersLeaveTogether ==
    [][ (finalizers' \cap InClusterLBPV # finalizers \cap InClusterLBPV)
            => /\ finalizers' \cap InClusterLBPV = {}
               /\ InClusterLBCleanupFinalizer \in finalizers => lbServices = 0
               /\ InClusterPVCleanupFinalizer \in finalizers => pvs = 0
               /\ CheckIfAllLoadbalancersAreGone ]_vars

\* C7 witness: the load balancers are gone and confirmed, yet the pass deleted
\* volumes and so kept both finalizers.
C7_Witness ==
    /\ result = "halt-in-cluster"
    /\ deletedSomeResource
    /\ InClusterLBPV \subseteq finalizers
    /\ lbServices = 0 /\ lbsPending = 0 /\ lbDeleting
    /\ pvs > 0

\* C8 as stated: a pass that gets past the node-deletion check has invoked
\* CleanUpCloudProvider before it looks at the credentials.
C8_Original ==
    (result = "done" \/ "cleanUpCredentialsSecrets" \in attempted)
        => "CleanUpCloudProvider" \in attempted

\* C8 amended: CleanupCluster never invokes CleanUpCloudProvider.  A pass without
\* the node-deletion finalizer goes from the cluster-role-binding cleanup to the
\* credentials check, and cleans up the credentials only when no cloud cleanup
\* finalizer is left, i.e. after the cloud cleanup was done outside the pass.
C8_CredentialsAfterCloudCleanup ==
    /\ "CleanUpCloudProvider" \notin attempted
    /\ (pc = "cleanUpCredentialsSecrets" \/ "cleanUpCredentialsSecrets" \in attempted)
        => /\ "cleanupClusterRoleBindings" \in attempted
           /\ finalizers \cap AzureFinalizers = {}
           /\ cidx = 0 \/ NextPresent(ccluster, cidx) = 0

\* C8 witness: the credentials were cleaned up after a cloud cleanup call had
\* deleted the Azure resources.
C8_Witness ==
    /\ "cleanUpCredentialsSecrets" \in attempted
    /\ result = "done"
    /\ cresult = "nil"
    /\ azure = {}

\* C9: when the delete call for one Azure resource has been made, the finalizer
\* of every resource earlier in the order security group, route table, subnet,
\* VNet, availability set, resource group is off the cluster.
C9_Order ==
    << FinalizerSecurityGroup, FinalizerRouteTable, FinalizerSubnet,
       FinalizerVNet, FinalizerAvailabilitySet, FinalizerResourceGroup >>

C9_AzureCleanupInOrder ==
    (cidx > 0 /\ cphase = "update")
        => \A i, j \in 1..Len(C9_Order) :
              (i < j /\ C9_Order[j] = AzureCleanupOrder[cidx])
                  => (C9_Order[i] \notin finalizers /\ C9_Order[i] \notin ccluster)

\* C9 witness: the resource group is being deleted after five earlier resources
\* were deleted and their finalizers removed.
C9_Witness ==
    /\ cidx = Len(AzureCleanupOrder) /\ cphase = "update"
    /\ deleteResult = "ok"
    /\ azure = {}
    /\ finalizers \cap AzureFinalizers = {FinalizerResourceGroup}

\* C10: a delete call answered with 404 does not end the cleanup: the finalizer
\* removal follows, and once the update succeeds the finalizer is off the
\* cluster and the call goes on with the next finalizer.
C10_NotFoundIsSuccess ==
    [][ /\ (cidx > 0 /\ cphase = "check" /\ deleteResult' = "notfound")
            => (cphase' = "update" /\ cidx' > 0 /\ cresult' = "running")
        /\ (cidx > 0 /\ cphase = "update" /\ deleteResult = "notfound"
                /\ cphase' = "check" /\ cresult' # "err")
            => /\ AzureCleanupOrder[cidx] \notin finalizers'
               /\ cidx' = cidx + 1
               /\ cresult' = "running" ]_vars

\* C10 witness: a 404 was answered for a finalizer in the middle of the order.
C10_Witness ==
    /\ cidx > 1 /\ cidx < Len(AzureCleanupOrder)
    /\ cphase = "update"
    /\ deleteResult = "notfound"
    /\ AzureCleanupOrder[cidx] \in finalizers

\* C11: a delete call ends the cleanup in error exactly when its answer is an
\* error other than 404; that return leaves the finalizer list as it is: the
\* finalizer of the failed resource and those later in the order are still on
\* the cluster, those earlier in the order are still off.
C11_AbortOnGenuineError ==
    [][ (cidx > 0 /\ cphase = "check" /\ NextPresent(ccluster, cidx) # 0)
            => LET i == NextPresent(ccluster, cidx)
               IN  /\ (cresult' = "err") <=> (deleteResult' = "error")
                   /\ deleteResult' = "error"
                        => /\ cidx' = 0
                           /\ finalizers' = finalizers
                           /\ AzureCleanupOrder[i] \in finalizers'
                           /\ \A j \in 1..Len(AzureCleanupOrder) :
                                 /\ (j > i /\ AzureCleanupOrder[j] \in ccluster)
                                        => AzureCleanupOrder[j] \in finalizers'
                                 /\ j < i => AzureCleanupOrder[j] \notin finalizers' ]_vars

\* C11 witness: the security group was cleaned up, then the route table's
\* delete call failed; the call returned an error with five finalizers left.
C11_Witness ==
    /\ cidx = 0 /\ cresult = "err" /\ deleteResult = "error"
    /\ FinalizerSecurityGroup \notin azure
    /\ FinalizerRouteTable \in azure
    /\ finalizers \cap AzureFinalizers = AzureFinalizers \ {FinalizerSecurityGroup}

\* C12: no interruption leaves a finalizer that cannot be removed.  Whenever
\* an Azure resource is gone while its cleanup finalizer is still on the cluster
\* (the call was interrupted between the delete and the finalizer removal), and
\* whenever the listed load balancers or volumes are gone while the in-cluster
\* finalizers are still there, later passes remove the finalizer: from some
\* point on no finalizer is in that situation.
\* (Resources do not come back, so a finalizer stays in Stranded until it is
\* removed: when Stranded is empty, all that were in it have been removed.)
Stranded ==
    { f \in AzureFinalizers : f \in finalizers /\ f \notin azure }
    \cup (IF InClusterLBCleanupFinalizer \in finalizers /\ lbDeleting /\ lbServices = 0
          THEN {InClusterLBCleanupFinalizer} ELSE {})
    \cup (IF InClusterPVCleanupFinalizer \in finalizers /\ pvDeleting /\ pvs = 0
          THEN {InClusterPVCleanupFinalizer} ELSE {})

C14_RequeueAtCeiling ==
    [][ \A w \in Workers :
          (wpc[w] = "check" /\ wpc'[w] # "check"
                /\ Cardinality(ClustersUpdating) >= ConcurrentClusterUpdates)
            => /\ wpc'[w] = "idle"
               /\ wresult'[w] = [ requeueAfter |-> 10, reconciled |-> FALSE ]
               /\ updating' = updating ]_vars

\* C14 witness: a worker was sent away with a requeue for a cluster that has no
\* update in progress, while another cluster has.
C14_Witness ==
    \E w \in Workers :
        /\ wpc[w] = "idle"
        /\ wresult[w] = [ requeueAfter |-> 10, reconciled |-> FALSE ]
        /\ Cardinality(ClustersUpdating) = ConcurrentClusterUpdates
        /\ \E v \in Workers : v # w /\ wpc[v] = "reconciling" /\ updating[wcluster[v]]

\* C15: never are more clusters being reconciled at once than the ceiling allows.
C15_ReconcilingWithinCeiling ==
    Cardinality({ w \in Workers : wpc[w] = "reconciling" }) <= ConcurrentClusterUpdates

C18_VAppNamePersisted ==
    /\ vpc = "network" => (vcluster.VApp # "" /\ vcluster.VApp \in vapps)
    /\ netLookup # << "" >>

\* C19: when both specs carry an Azure sub-spec, ValidateCloudSpecUpdate returns
\* an error exactly when one of resource group, VNet resource group, VNet name,
\* subnet name, route table name, security group or availability set is
\* non-empty in the old spec and different in the new one; a field empty in
\* the old spec may take any new value.
C19_ErrorIffPopulatedFieldChanged ==
    (validateErr # "unset" /\ oldSpec.Azure /\ newSpec.Azure)
        => ( validateErr # "nil"
             <=> \E f \in { "ResourceGroup", "VNetResourceGroup", "VNetName", "SubnetName",
                            "RouteTableName", "SecurityGroup", "AvailabilitySet" } :
                    oldSpec.Spec[f] # "" /\ oldSpec.Spec[f] # newSpec.Spec[f] )

\* C19 witness: an update that fills in the empty resource group and changes
\* the populated availability set is rejected for the availability set.
C19_Witness ==
    /\ validateErr = "AvailabilitySet"
    /\ oldSpec.Azure /\ newSpec.Azure
    /\ oldSpec.Spec["ResourceGroup"] = "" /\ newSpec.Spec["ResourceGroup"] = "b"
    /\ oldSpec.Spec["AvailabilitySet"] = "a" /\ newSpec.Spec["AvailabilitySet"] = "b"

\* C20: an invocation of AddICMPRulesIfRequired against a security group that
\* holds the three baseline rules issues no update call, and neither does an
\* invocation that directly follows a successful one on an owned security
\* group.
C20_NoRedundantUpdate ==
    [][ AddICMPRulesIfRequired
          => /\ BaselineRules \subseteq sgRules
                  => icmpCalls'[Len(icmpCalls')] = 0
             /\ (icmpResult = "nil" /\ sgName # "" /\ sgOwned /\ ~sgTouched)
                  => icmpCalls'[Len(icmpCalls')] = 0 ]_vars

\* C20 witness: a first invocation wrote the missing rules in one update, the
\* second, right after it, wrote nothing.
C20_Witness ==
    /\ icmpCalls = << 1, 0 >>
    /\ icmpResult = "nil"
    /\ sgOwned /\ ~sgTouched
    /\ BaselineRules \subseteq sgRules

\* C21: AddICMPRulesIfRequired never updates a security group without the
\* cluster's ownership tag; on an owned group one invocation issues at most one
\* update, which adds exactly the missing baseline rules and keeps every rule
\* the group had.
C21_OwnedOnlySingleBatchedUpdate ==
    [][ AddICMPRulesIfRequired
          => LET calls == icmpCalls'[Len(icmpCalls')]
             IN  /\ ~sgOwned => (calls = 0 /\ sgRules' = sgRules)
                 /\ calls <= 1
                 /\ calls = 0 => sgRules' = sgRules
                 /\ sgRules \subseteq sgRules'
                 /\ sgRules' \ sgRules \in { {}, BaselineRules \ sgRules } ]_vars

\* C21 witness: one update added the missing baseline rules to an owned
\* group and kept its custom rule.
C21_Witness ==
    /\ icmpCalls = << 1 >>
    /\ icmpResult = "nil"
    /\ sgOwned /\ ~sgTouched
    /\ sgRules = RuleNames

\* C22: in an invocation on a cluster without deletion timestamp, a failure of
\* reconcileCluster makes the invocation return an error and record the
\* failure in Status.ErrorReason and Status.ErrorMessage (stored once that
\* status update goes through); a success of reconcileCluster has the recorded
\* error cleared, and after an invocation that returned no error both fields
\* are nil.
C22_ErrorRecordedOrCleared ==
    (ppc = "idle" /\ "reconcileCluster" \in Steps)
        => /\ ~pobj.Deleting
           /\ "reconcileCluster" \in pfailed
                => /\ presult.err
                   /\ "updateClusterError" \in Steps /\ "clearClusterError" \notin Steps
                   /\ "updateClusterError" \notin pfailed
                        => /\ pstored.ErrorReason = "ReconcileClusterError"
                           /\ pstored.ErrorMessage = "reconcileCluster failed"
           /\ "reconcileCluster" \notin pfailed
                => /\ "clearClusterError" \in Steps /\ "updateClusterError" \notin Steps
                   /\ "clearClusterError" \notin pfailed
                        => (pstored.ErrorReason = "nil" /\ pstored.ErrorMessage = "nil")
           /\ ~presult.err
                => (pstored.ErrorReason = "nil" /\ pstored.ErrorMessage = "nil")

\* C22 witness: reconcileCluster failed, the failure is on the stored status
\* and the invocation returned an error.
C22_Witness ==
    /\ ppc = "idle"
    /\ pfailed = { "reconcileCluster" }
    /\ pstored.ErrorReason = "ReconcileClusterError"
    /\ pstored.ErrorMessage = "reconcileCluster failed"
    /\ presult.err

\* C23 as stated: every invocation on an admitted cluster with a deletion
\* timestamp returns RequeueAfter = 10s.
C23_Original ==
    (ppc = "idle" /\ "syncHealth" \in Steps /\ pobj.Deleting)
        => presult.requeueAfter = 10

\* C23 amended: an invocation on an admitted cluster with a deletion timestamp
\* returns RequeueAfter = 10s whenever its health synchronisation succeeds,
\* whether CleanupCluster then succeeds or fails (its error is returned next to
\* the result); when the health synchronisation fails, CleanupCluster is not
\* run and the empty result is returned with the error.
C23_RequeueAfterCleanup ==
    (ppc = "idle" /\ "syncHealth" \in Steps /\ pobj.Deleting)
        => IF "syncHealth" \in pfailed
           THEN /\ "CleanupCluster" \notin Steps
                /\ presult = [ requeueAfter |-> 0, err |-> TRUE ]
           ELSE /\ "CleanupCluster" \in Steps
                /\ presult.requeueAfter = 10
                /\ "CleanupCluster" \in pfailed => presult.err

\* C23 witness: CleanupCluster failed and the invocation returned its error
\* with the ten seconds.
C23_Witness ==
    /\ ppc = "idle"
    /\ pobj.Deleting
    /\ pfailed = { "CleanupCluster" }
    /\ presult = [ requeueAfter |-> 10, err |-> TRUE ]

\* C24 as stated: an invocation on a cluster with a deletion timestamp performs
\* none of health synchronisation, reconcileCluster (cloud-provider
\* reconciliation and child-object convergence), error recording or clearing.
C24_Original ==
    pobj.Deleting
        => Steps \cap { "syncHealth", "reconcileCluster",
                        "updateClusterError", "clearClusterError" } = {}

\* C24 amended: an invocation on a cluster with a deletion timestamp performs
\* the health synchronisation and then the deletion pipeline in place of
\* reconcileCluster and of error recording and clearing.
C24_DeletionReplacesReconcile ==
    pobj.Deleting
        => /\ Steps \cap { "reconcileCluster", "updateClusterError", "clearClusterError" } = {}
           /\ "CleanupCluster" \in Steps
                => psteps = << "reconcileClusterStatus", "syncHealth", "CleanupCluster" >>

\* C24 witness: the deletion pipeline has run after the health synchronisation.
C24_Witness ==
    /\ pobj.Deleting
    /\ psteps = << "reconcileClusterStatus", "syncHealth", "CleanupCluster" >>
    /\ ppc = "idle"

\* C25: the namespace name is stamped before anything else and only over an
\* empty value; while the control-plane version is empty nothing further runs
\* and no requeue is asked for; no reconcile or cleanup step runs on a cluster
\* whose namespace name is empty.
C25_StatusFirstThenVersionGate ==
    [][ /\ pstored.NamespaceName # "" => pstored'.NamespaceName = pstored.NamespaceName
        /\ psteps' # << >> => psteps'[1] = "reconcileClusterStatus"
        /\ "reconcileClusterStatus" \in { psteps'[i] : i \in 1..Len(psteps') } \ pfailed'
             => pstored'.NamespaceName # ""
        /\ pobj'.ControlPlane = ""
             => /\ { psteps'[i] : i \in 1..Len(psteps') } \subseteq { "reconcileClusterStatus" }
                /\ (ppc' = "idle" /\ presult' # NoPassResult) => presult'.requeueAfter = 0
        /\ { psteps'[i] : i \in 1..Len(psteps') } \ { "reconcileClusterStatus" } # {}
             => (pobj'.NamespaceName # "" /\ pstored'.NamespaceName # "") ]_vars

\* C25 witness: the namespace name was stamped on a cluster without
\* control-plane version and the invocation ended there without requeue.
C25_Witness ==
    /\ ppc = "idle"
    /\ psteps = << "reconcileClusterStatus" >>
    /\ pobj.ControlPlane = ""
    /\ pstored.NamespaceName = NamespaceName(pstored.Name)
    /\ presult = [ requeueAfter |-> 0, err |-> FALSE ]

\* C26: updateCluster never patches status: a modify function that changes a
\* status field makes it return an error without sending a patch, one that
\* changes nothing makes it return nil without sending a patch.
C26_StatusNeverPatched ==
    [][ (UpdateCluster /\ ukind = "updateCluster")
          => LET new == Modified(umodify, uold)
             IN  /\ ustored'.Status = ustored.Status
                 /\ \A i \in 1..Len(upatches') : "Status" \notin upatches'[i]
                 /\ new.Status # uold.Status => (uerr' = "err" /\ upatches' = << >>)
                 /\ new = uold => (uerr' = "nil" /\ upatches' = << >>) ]_vars

\* C26 witness: a modify function that set a spec field and a status field was
\* refused without a patch.
C26_Witness ==
    /\ ukind = "updateCluster" /\ umodify = "setSpecAndStatus"
    /\ upc = "idle" /\ uerr = "err" /\ upatches = << >>
    /\ uold.Spec = "old" /\ uold.Status = "s0"
    /\ ustored.Spec = "old" /\ ustored.Status = "s0"

AddonInvocation ==
    AddonGetFails \/ AddonClusterGone \/ AddonClusterHasNoVersion \/ AddonReconcile

\* The invocation took the cleanup finalizer off the addon.
FinalizerRemoved == adaddon.Finalizer /\ ~adaddon'.Finalizer

\* The invocation rendered, ran the delete command with success and then
\* removed the finalizer, or found the manifest directory gone and then
\* removed the finalizer.
RemovedAfterDelete ==
    \/ adsteps' = << "render", "delete", "removeFinalizer" >> /\ adfailed' = { }
    \/ ~addir /\ adsteps' = << "render", "removeFinalizer" >> /\ adfailed' = { "nodir" }

\* A failed render or delete leaves the finalizer and returns an error.
FailureKeepsFinalizer ==
    adfailed' \cap { "render", "delete" } # { } =>
        adresult'.err /\ adaddon'.Finalizer = adaddon.Finalizer

\* C29 as stated: on an addon with a deletion timestamp every invocation that
\* removes the cleanup finalizer has rendered and deleted with success before
\* (or found the manifest directory gone), and a failed render or delete
\* leaves the finalizer and returns an error.
C29_Original ==
    [][ (AddonInvocation /\ adaddon.Deleting) =>
            /\ FinalizerRemoved => RemovedAfterDelete
            /\ FailureKeepsFinalizer ]_vars

\* C29: on an addon with a deletion timestamp an invocation that removes the
\* cleanup finalizer has rendered and deleted with success before, or found
\* the manifest directory gone, or found the cluster gone, in which case it
\* removes the finalizer and does nothing else; a failed render or delete
\* leaves the finalizer and returns an error.
C29_FinalizerRemovedAfterDeleteOrClusterGone ==
    [][ (AddonInvocation /\ adaddon.Deleting) =>
            /\ FinalizerRemoved =>
                  \/ adcluster # "gone" /\ RemovedAfterDelete
                  \/ adcluster = "gone" /\ adsteps' = << "removeFinalizer" >>
            /\ FailureKeepsFinalizer ]_vars

\* An addon under deletion lost its finalizer after a successful delete.
C29_Witness ==
    /\ adaddon.Deleting /\ ~adaddon.Finalizer
    /\ adcluster = "up"
    /\ adsteps = << "render", "delete", "removeFinalizer" >>
    /\ adfailed = { } /\ adresult # << >> /\ ~adresult.err

\* The addon is one the reconciler has nothing to do for.
NothingToDo ==
    ~adaddon.Deleting /\ adaddon.ResourcesCreated /\ ~adaddon.EnsureLabel

\* C30 as stated: an invocation on an addon without deletion timestamp, with
\* the ResourcesCreated condition True and without the ensure label, renders
\* and applies nothing and writes neither finalizer nor status.
C30_Original ==
    [][ (AddonInvocation /\ NothingToDo) =>
            adsteps' = << >> /\ adaddon' = adaddon ]_vars

\* C30: an invocation on an addon without deletion timestamp, with the
\* ResourcesCreated condition True and without the ensure label, whose cluster
\* still exists, renders and applies nothing and writes neither finalizer nor
\* status; when the cluster is gone the invocation does nothing but remove
\* the cleanup finalizer.
C30_NoWorkWhileClusterExists ==
    [][ (AddonInvocation /\ NothingToDo) =>
            /\ adcluster # "gone" => adsteps' = << >> /\ adaddon' = adaddon
            /\ adcluster = "gone" =>
                  /\ adsteps' \in { << >>, << "removeFinalizer" >> }
                  /\ \E f \in BOOLEAN : adaddon' = [ adaddon EXCEPT !.Finalizer = f ] ]_vars

\* reconcile ran on such an addon and returned at once, without an error.
C30_Witness ==
    /\ NothingToDo /\ adaddon.Finalizer
    /\ adcluster = "up"
    /\ adsteps = << >> /\ adfailed = { }
    /\ adresult = [ requeue |-> "enforce", err |-> FALSE ]

\* The names of the objects in the tenant cluster that carry the addon label.
AddonObjects(objects) == { o.name : o \in { x \in objects : x.label = getAddonLabel } }

\* reconcile ran on an addon that is not being deleted and whose template
\* renders something, and returned neither an error nor a requeue of its own.
ReconciledWell ==
    /\ AddonReconcile
    /\ ~adaddon.Deleting /\ adtemplate # { }
    /\ ~adresult'.err /\ adresult'.requeue # "10s"

\* C31 as stated: after a reconcile of an addon the tenant cluster holds, of
\* that addon, exactly the objects its template renders now: what an earlier
\* rendering left behind has been pruned.
C31_Original ==
    [][ ReconciledWell => AddonObjects(adobjects') = adtemplate ]_vars

\* C31: after a reconcile of an addon that carries the ensure label, or whose
\* ResourcesCreated condition is not True, the tenant cluster holds, of that
\* addon, exactly the objects its template renders now, and the objects that
\* are not the addon's are left alone.
C31_PrunedWhenEnsuredOrNotYetCreated ==
    [][ (ReconciledWell /\ (adaddon.EnsureLabel \/ ~adaddon.ResourcesCreated)) =>
            /\ AddonObjects(adobjects') = adtemplate
            /\ { o \in adobjects' : o.label # getAddonLabel }
                 = { o \in adobjects : o.label # getAddonLabel } ]_vars

\* The template rendered two ConfigMaps and renders one now; the reconcile
\* of the ensured addon pruned the other.
C31_Witness ==
    /\ adaddon.EnsureLabel /\ adaddon.ResourcesCreated /\ ~adaddon.Deleting
    /\ adtemplate = { "cm1" }
    /\ adpruned = { "cm2" }
    /\ AddonObjects(adobjects) = { "cm1" }
    /\ adsteps = << "render", "apply", "setFinalizer" >> /\ adfailed = { }

\* The invocation changed neither the tenant cluster nor the addon and took
\* no step.
NothingDone == adsteps' = << >> /\ adobjects' = adobjects /\ adaddon' = adaddon

\* C32: an invocation in which the List of a required resource type answers
\* that the type is not served returns a requeue after 10s and no error, and
\* applies and deletes nothing; an invocation in which such a List fails in
\* another way returns an error.
C32_NotServedRequeuesOtherErrorFails ==
    [][ AddonInvocation =>
            /\ "nomatch" \in adfailed' =>
                  adresult' = [ requeue |-> "10s", err |-> FALSE ] /\ NothingDone
            /\ "list" \in adfailed' => adresult'.err /\ NothingDone ]_vars

\* An addon with required resource types met a type that is not served.
C32_Witness ==
    /\ adaddon.Required /\ adcluster = "up"
    /\ adfailed = { "nomatch" }
    /\ adresult = [ requeue |-> "10s", err |-> FALSE ]
    /\ adsteps = << >>

\* C36: an addon that is not being deleted and has objects of its own in the
\* tenant cluster carries the cleanup finalizer.
C36_AppliedAddonHasFinalizer ==
    (~adaddon.Deleting /\ AddonObjects(adobjects) # { }) => adaddon.Finalizer

\* The set of steps of the invocation.
StepsTaken == { adsteps'[i] : i \in DOMAIN adsteps' }

\* C37: on an addon with a deletion timestamp an invocation runs the delete
\* command or removes the finalizer only when the API server of the cluster
\* is Up and no required resource type is found not served, or when the
\* cluster is gone, and then it removes the finalizer and deletes nothing; an
\* invocation that finds the API server not Up or a required type not served
\* returns a requeue after 10s and does nothing.
C37_CleanupOnlyWhenUpAndServed ==
    [][ (AddonInvocation /\ adaddon.Deleting /\ "get" \notin adfailed') =>
            /\ (StepsTaken \cap { "delete", "removeFinalizer" } # { } \/ FinalizerRemoved) =>
                  \/ adcluster = "up" /\ "nomatch" \notin adfailed'
                  \/ /\ adcluster = "gone"
                     /\ adsteps' = << "removeFinalizer" >>
                     /\ adobjects' = adobjects
            /\ (adcluster = "apidown" \/ "nomatch" \in adfailed') =>
                  adresult' = [ requeue |-> "10s", err |-> FALSE ] /\ NothingDone ]_vars

\* An addon under deletion met an API server that is not Up and was requeued
\* with its finalizer and its objects in place.
C37_Witness ==
    /\ adaddon.Deleting /\ adaddon.Finalizer
    /\ adcluster = "apidown"
    /\ AddonObjects(adobjects) # { }
    /\ adsteps = << >> /\ adfailed = { }
    /\ adresult = [ requeue |-> "10s", err |-> FALSE ]

\* C38: an invocation on a cluster with a deletion timestamp in which the
\* concurrency check answered that the ceiling is reached runs neither
\* syncHealth nor CleanupCluster and returns a requeue after 10s; so
\* CleanupCluster runs only in invocations the check admitted.
C38_AdmissionBeforeDeletion ==
    (pobj # << >> /\ pobj.Deleting /\ "ceiling" \in pfailed) =>
        /\ ppc = "idle"
        /\ Steps \cap { "syncHealth", "CleanupCluster" } = { }
        /\ presult # NoPassResult
        /\ presult.requeueAfter = RequeueAfterSeconds

\* A cluster under deletion was refused by the concurrency check and
\* requeued.
C38_Witness ==
    /\ pobj # << >> /\ pobj.Deleting /\ pobj.ControlPlane # ""
    /\ pfailed = { "ceiling" }
    /\ ppc = "idle" /\ psteps = << "reconcileClusterStatus" >>
    /\ presult = [ requeueAfter |-> RequeueAfterSeconds, err |-> FALSE ]

\* C33: each of the flags externalCloudProvider and etcdLauncher, once it has
\* been enabled, is enabled in the stored cluster for good, and the last update
\* request, if it has such a flag false or absent, was rejected with an error
\* for that flag.
C33_OneWayFlagsStayEnabled ==
    /\ \A flag \in fever : FlagEnabled(fold, flag)
    /\ fnew # << >> =>
          \A flag \in fever : ~FlagEnabled(fnew, flag) => flag \in ferrs

\* A request to remove a one-way flag that is enabled was rejected.
C33_Witness ==
    /\ fnew # << >>
    /\ \E flag \in OneWayFlags :
          /\ flag \in fever /\ FlagEnabled(fold, flag)
          /\ fnew.Features[flag] = "absent"
          /\ flag \in ferrs

\* C34: an update request on a stored cluster with the encryptionAtRest flag
\* enabled, whose cluster has the flag not enabled while its encryption is
\* still configured or active, is rejected and leaves the stored cluster as
\* it is.  (A step that keeps the phase is an update request.)
C34_FlagKeptWhileEncryptionInUse ==
    [][ ( /\ fold'.Phase = fold.Phase
          /\ FlagEnabled(fold, ClusterFeatureEncryptionAtRest)
          /\ ~FlagEnabled(fnew', ClusterFeatureEncryptionAtRest)
          /\ (IsEncryptionEnabled(fnew') \/ IsEncryptionActive(fnew')) )
        => (ferrs' # { } /\ fold' = fold) ]_vars

\* validateCNIUpdate was called with the CNI type unchanged, an old plugin
\* version that is supported, two versions that parse and differ, and no
\* unsafe-cni-upgrade label.
PlainVersionChange ==
    /\ nerr # "unset"
    /\ noldCni # NoCNI /\ nnewCni # NoCNI
    /\ nnewCni.Type = noldCni.Type
    /\ noldCni.Supported
    /\ ~ParseFails(noldCni.Version) /\ ~ParseFails(nnewCni.Version)
    /\ nnewCni.Version # noldCni.Version
    /\ UnsafeCNIUpgradeLabel \notin nlabels

\* The minor versions differ by at most one.
MinorsAtMostOneApart ==
    \/ nnewCni.Version.minor = noldCni.Version.minor
    \/ nnewCni.Version.minor = noldCni.Version.minor + 1
    \/ noldCni.Version.minor = nnewCni.Version.minor + 1

\* C40: with the CNI type unchanged, a supported old version and no
\* unsafe-cni-upgrade label, a change of version is accepted exactly when the
\* major versions are equal and the minor versions differ by at most one.
C40_OneMinorStep ==
    PlainVersionChange =>
        (nerr = "nil" <=>
            /\ nnewCni.Version.major = noldCni.Version.major
            /\ MinorsAtMostOneApart)

\* ------------------------------------------------------------------ C35
\* An invocation of the cleanup in which a binding was found absent and no
\* call failed.
CleanupFoundBindingGone ==
    /\ jlast = "cleanup"
    /\ jnotfound # { }
    /\ jfailed = { }

\* C35: when a project is being deleted and a ClusterRoleBinding or
\* RoleBinding of the project's resources no longer exists, the cleanup
\* treats this as done, goes on and removes the project's cleanup finalizer:
\* it returns nil and the project has no finalizer.
C35_AlreadyGoneIsSuccess ==
    CleanupFoundBindingGone => jerr = "nil" /\ ~jproject.Finalizer

\* ------------------------------------------------------------------ C39
\* The step is an invocation of sync on a project that is not being deleted.
EnsureInvocation == jlast' = "ensure" /\ jquiet'

\* The invocation left binding i as the add-only rule has it: an absent
\* binding is created with the generated subjects or left absent; an existing
\* one keeps its subjects in their order and gets at its end nothing, or the
\* generated subjects it lacked; without a write it is as it was.
AddOnly(i) ==
    LET old == jbindings[i]
        new == jbindings'[i]
    IN  /\ jwrites'[i] = 0 => new = old
        /\ IF old = NoBinding
           THEN new \in { NoBinding, GeneratedSubjects }
           ELSE /\ new # NoBinding
                /\ Len(new) >= Len(old)
                /\ SubSeq(new, 1, Len(old)) = old
                /\ LET added == SubSeq(new, Len(old) + 1, Len(new))
                   IN  \/ added = << >>
                       \/ /\ added = GeneratedSubjects
                          /\ RangeOf(added) \cap RangeOf(old) = { }

\* After an invocation that returned nil each binding exists and has the
\* generated subjects.
Converged ==
    jerr' = "nil" =>
        \A i \in { 1, 2 } : /\ jbindings'[i] # NoBinding
                            /\ RangeOf(GeneratedSubjects) \subseteq RangeOf(jbindings'[i])

\* The invocation follows one that returned nil, with no change in between.
SecondInvocation == jlast = "ensure" /\ jquiet /\ jerr = "nil"

\* C39: the two functions that ensure a binding are add-only and idempotent:
\* they create the binding if it is absent, otherwise append exactly the
\* generated subjects that are missing, never remove or reorder the existing
\* subjects, and an invocation that follows a successful one with no change
\* in between issues no write.
C39_AddOnlyAndIdempotent ==
    [][EnsureInvocation =>
          /\ AddOnly(1) /\ AddOnly(2)
          /\ Converged
          /\ SecondInvocation => jwrites' = << 0, 0 >>]_vars

\* An invocation that appended the generated subject to a ClusterRoleBinding
\* with another subject and created the absent RoleBinding.
C39_Witness ==
    /\ jlast = "ensure" /\ jquiet /\ jerr = "nil"
    /\ jbindings = << << "group-p2", "group-p1" >>, GeneratedSubjects >>
    /\ jwrites = << 1, 1 >>
    /\ jnotfound = { "rb" }

====
